---- MODULE Spec2Model ----
(***************************************************************************)
(* Model of the ABC-XYZ classification and stock-policy pipeline of        *)
(* src/project/abcxyz_main.py.                                             *)
(*                                                                         *)
(* Numbers.  Quantities and prices are integers.  Every quotient the code  *)
(* computes in floating point (pct, mean, variance, CV) is kept as an      *)
(* exact fraction [num, den] and compared by cross-multiplication; cut     *)
(* points are kept in hundredths (0.80 -> 80).  A square root is kept as   *)
(* the fraction under the root.  NaN is an explicit value.                 *)
(*                                                                         *)
(* Item codes are 1..MaxItems, standing for the codes in their sort order  *)
(* (groupby sorts its keys).  A date is the number of its calendar month.  *)
(*                                                                         *)
(* Spec is run() as the sequence of its stages on one input snapshot;      *)
(* SpecFn is one call of pick_z or eoq on any arguments.                   *)
(***************************************************************************)
EXTENDS Integers, Sequences, FiniteSets, TLC

\* ------------------------------------------------------------------ bounds
MaxItems == 3         \* item codes of the value and supplier scenarios
MaxSupplierItems == 2 \* item codes of the supplier scenarios
MaxMonth == 3         \* calendar months 1..MaxMonth
MaxQty == 3           \* quantities 0..MaxQty of a series scenario
MaxRecords == 2       \* consumption records of a demand scenario
MaxArg == 2           \* arguments of eoq are None and -1..MaxArg

Items == 1..MaxItems
Months == 1..MaxMonth
Qtys == 0..MaxQty
DemandItems == {1, 2}     \* item codes of the demand scenarios
DemandQtys == {0, 1, 2}   \* quantities of the demand scenarios
DemandMonths == {1, 2, MaxMonth}   \* months of the demand scenarios

\* ------------------------------------------------------- program constants
ABC_CUTS == <<80, 95>>          \* hundredths
XYZ_CUTS == <<50, 100>>         \* hundredths
Z_BY_ABC == [A |-> 196, B |-> 165, C |-> 128]     \* hundredths
Z_BY_XYZ == [X |-> 165, Y |-> 144, Z |-> 128]     \* hundredths
Z_DEFAULT == 165                \* hundredths
LT_DEFAULT == 15                \* days
ORDER_COST == 15000
HOLDING_RATE == 25              \* hundredths
DaysPerMonth == 30

\* --------------------------------------------------------------- helpers
Range(s) == {s[i] : i \in DOMAIN s}

Max(a, b) == IF a >= b THEN a ELSE b

\* fractions with a positive denominator
Frac(n, d) == [num |-> n, den |-> d]
FracLe(a, b) == a.num * b.den <= b.num * a.den
FracLt(a, b) == a.num * b.den < b.num * a.den
FracEq(a, b) == a.num * b.den = b.num * a.den

\* item names are tuples of characters
NoName == << >>
NaNName == <<"NaN">>            \* a missing (null) name
Names == { NoName,
           <<"H","E","L","I"," ","P","U","M","P">>,
           <<"H","E","L","I","C","A","L">>,
           <<"p","-","h","e","l","i">> }

VARIABLES
    pc,          \* the stage of run() reached, or the state of a function call
    issues_df,   \* normalized consumption records, in input order
    prices_df,   \* price table: item code -> [itemname, avgprice]
    heli_set,    \* item codes of the HELI list
    tvh_set,     \* item codes of the TVH list
    agg,         \* ranking rows in descending value order, with pct and ABC
    mens,        \* monthly matrix: item code -> (month -> quantity)
    xyz,         \* item code -> [cv, XYZ]
    master,      \* item code -> profile
    supplier,    \* item code -> supplier
    prices_arg,  \* the price table as the caller passed it
    cfg,         \* config.yaml as run() finds it
    sorted_as,   \* the order sort_values("valor") gave the ranking rows
    lead_time,   \* item code -> lead time in days
    policy,      \* item code -> stock policy columns
    master_out,  \* the SkuProfile table: rows in output order
    alerts_out,  \* the reorder alerts: rows in output order
    out2,        \* the tables of a second run() on the same inputs
    entry,       \* "main" when main() drives the run, "run" for run() alone
    raw_moves,   \* the movement rows as read, before normalize_moves
    moves_cols,  \* the columns normalize_moves recognizes in the movements
    raw_prices,  \* the price file as read: << >> without --prices
    call,        \* a call of a pure function: its name and arguments
    ret,         \* the value the call returned
    move,        \* picking-api: the row of table moves, with its move_lines
    stock,       \* picking-api: the rows of table stock
    session,     \* picking-api: request -> its database session and position
    inventory_balance,  \* picking-api: warehouse -> qty of the item's balance row
    movement,    \* picking-api: the rows of table movement
    outbound_session,   \* picking-api: the row of an outbound session, with its entries
    count_session,      \* picking-api: the row of a count session, with its entries
    print_jobs,  \* picking-api: the rows of table print_jobs, oldest first
    agent,       \* print agent: its position in run() and its HTTP session
    printer,     \* job -> how many times the spooler received it
    net          \* whether the agent's bearer token is valid; faults so far

movesVars == <<move, stock>>
ledgerVars == <<inventory_balance, movement, outbound_session, count_session>>
printVars == <<print_jobs, agent, printer, net>>
svcVars == <<session, movesVars, ledgerVars, printVars>>
batchVars == <<pc, issues_df, prices_df, agg, mens, xyz, master, supplier,
              sorted_as, lead_time, policy, master_out, alerts_out, out2,
              prices_arg, heli_set, tvh_set, cfg, entry, raw_moves, moves_cols,
              raw_prices, call, ret>>
fileVars == <<heli_set, tvh_set, cfg, entry, raw_moves, moves_cols, raw_prices,
             svcVars>>
inputVars == <<prices_arg, fileVars>>
pipeVars == <<issues_df, prices_df, agg, mens, xyz, master, supplier, sorted_as,
             lead_time, policy, master_out, alerts_out, out2, inputVars>>
fnVars == <<call, ret>>
vars == <<pc, pipeVars, fnVars>>

\* ------------------------------------------------------------- inputs
PriceVals == {0, 1, 3, 16}
NoPrices == << >>               \* an empty price table

Record(i, q, d) == [itemcode |-> i, qty |-> q, date |-> d]

\* all sequences over S of length 1..n
SeqsUpTo(S, n) == UNION {[1..k -> S] : k \in 1..n}

\* the elements of a set of integers in ascending order
RECURSIVE Ascending(_)
Ascending(S) ==
    IF S = {} THEN << >>
    ELSE LET m == CHOOSE x \in S : \A y \in S : x <= y
         IN <<m>> \o Ascending(S \ {m})

RECURSIVE SumSeq(_)
SumSeq(s) == IF s = << >> THEN 0 ELSE Head(s) + SumSeq(Tail(s))

\* --------------------------------------------- main(): normalize_moves
\* A cell of a raw movement row is << >> when it is blank or does not parse
\* and <<v>> when it reads as v.
BadCell == << >>
Cell(v) == <<v>>

\* the columns of a movement table that normalize_moves looks for
MoveColumns == {"itemcode", "date", "qty"}

NoError == "none"

\* mutant of MovesError: a missing date column is not noticed
MovesError_nodate(cols) ==
    IF "itemcode" \notin cols THEN "No se encontro columna SKU en movimientos"
    ELSE NoError

\* lines 92-97: the ValueError normalize_moves raises for a missing column
MovesError(cols) ==
    IF "itemcode" \notin cols THEN "No se encontro columna SKU en movimientos"
    ELSE IF "date" \notin cols THEN "No se encontro columna fecha en movimientos"
    ELSE NoError

\* lines 106-109: to_numeric(errors="coerce").fillna(0).clip(lower=0) of the
\* quantity column, 1 when the table has no quantity column
QtyOf(cell, cols) ==
    IF "qty" \in cols
    THEN (IF cell = BadCell \/ cell[1] < 0 THEN 0 ELSE cell[1])
    ELSE 1

\* mutant of NormalizeMoves: rows with an unparseable date are kept, in month 1
NormalizeMoves_keepNaT(raw, cols) ==
    LET coded == SelectSeq(raw, LAMBDA r : r.itemcode # BadCell)
    IN [k \in DOMAIN coded |->
           [itemcode |-> coded[k].itemcode[1],
            qty |-> QtyOf(coded[k].qty, cols),
            date |-> IF coded[k].date = BadCell THEN 1 ELSE coded[k].date[1]]]

\* lines 102-110, for a table with an item and a date column
NormalizeMoves(raw, cols) ==
    LET coded == SelectSeq(raw, LAMBDA r : r.itemcode # BadCell)
        dated == SelectSeq(coded, LAMBDA r : r.date # BadCell)
    IN [k \in DOMAIN dated |->
           [itemcode |-> dated[k].itemcode[1],
            qty |-> QtyOf(dated[k].qty, cols),
            date |-> dated[k].date[1]]]

\* -------------------------------------------- main(): normalize_prices
\* the columns of a price table that normalize_prices looks for
PriceColumns == {"itemcode", "avgprice"}

\* a price file: its columns and, per item code, the cell of its price
PriceFile(cols, rows) == <<[cols |-> cols, rows |-> rows]>>
NoPriceFile == << >>

\* lines 78-79: the ValueError normalize_prices raises
PricesError(file) ==
    IF file # NoPriceFile /\ "itemcode" \notin file[1].cols
    THEN "No se encontro columna itemcode en precios"
    ELSE NoError

\* mutant of AvgPriceOf: a price that does not parse becomes 0
AvgPriceOf_fill0(cell, cols) ==
    IF "avgprice" \in cols
    THEN (IF cell = BadCell THEN 0 ELSE IF cell[1] < 0 THEN 0 ELSE cell[1])
    ELSE 1

\* lines 81-83: 1.0 without a price column, else
\* to_numeric(errors="coerce").fillna(1.0).clip(lower=0.0)
AvgPriceOf(cell, cols) ==
    IF "avgprice" \in cols
    THEN (IF cell = BadCell THEN 1 ELSE IF cell[1] < 0 THEN 0 ELSE cell[1])
    ELSE 1

\* lines 63-88 and, without --prices, the empty table of line 159
NormalizePrices(file) ==
    IF file = NoPriceFile THEN << >>
    ELSE [i \in DOMAIN file[1].rows |->
             [itemname |-> << >>,
              avgprice |-> AvgPriceOf(file[1].rows[i], file[1].cols)]]

\* mutant of Empty: no table counts as empty
Empty_never(df) == FALSE

\* line 360: issues_df.empty
Empty(df) == Len(df) = 0

\* ------------------------------------------- run(): value classifier (ABC)
Clip0(x) == IF x < 0 THEN 0 ELSE x

\* lines 230-233: an empty price table becomes one row per consumed item at
\* price 1.0; prices are clipped at 0
DefaultPrices(p, iss) ==
    LET q == IF DOMAIN p = {}
             THEN [i \in {iss[k].itemcode : k \in DOMAIN iss} |->
                      [itemname |-> NoName, avgprice |-> 1]]
             ELSE p
    IN [i \in DOMAIN q |->
           [itemname |-> q[i].itemname, avgprice |-> Clip0(q[i].avgprice)]]

\* lines 235-237: left join of the records with the price table
Cons(iss, p) ==
    [k \in DOMAIN iss |->
        LET r == iss[k]
            hit == r.itemcode \in DOMAIN p
            price == IF hit THEN p[r.itemcode].avgprice ELSE 1
        IN [itemcode |-> r.itemcode, qty |-> r.qty, date |-> r.date,
            itemname |-> IF hit THEN p[r.itemcode].itemname ELSE NaNName,
            avgprice |-> price, valor |-> r.qty * price]]

\* lines 240-243: one row per item code
GroupRow(cons, i) ==
    LET sel == SelectSeq(cons, LAMBDA r : r.itemcode = i)
        named == SelectSeq(sel, LAMBDA r : r.itemname # NaNName)
    IN [itemcode |-> i,
        itemname |-> IF named = << >> THEN NaNName ELSE named[1].itemname,
        valor |-> SumSeq([k \in DOMAIN sel |-> sel[k].valor]),
        unidades |-> SumSeq([k \in DOMAIN sel |-> sel[k].qty])]

ItemCodes(iss) == {iss[k].itemcode : k \in DOMAIN iss}

\* line 244: the orders sort_values("valor", ascending=False) can produce; the
\* default sort kind is not stable, so rows of equal value come in any order
Rankings(cons) ==
    LET keys == ItemCodes(cons)
        n == Cardinality(keys)
    IN {o \in [1..n -> keys] :
           /\ \A a, b \in 1..n : a # b => o[a] # o[b]
           /\ \A a, b \in 1..n :
                 a < b => GroupRow(cons, o[a]).valor >= GroupRow(cons, o[b]).valor}

\* mutant of ValorSort: rows of equal value come in a fresh order every time
ValorSort_fresh(cons, memo) == Rankings(cons)

\* line 244: sort_values is a function of the rows it is given: which of the
\* possible orders it returns is not known, but on the same rows it returns
\* the order it returned before (memo: << >> or <<[input, order]>>)
ValorSort(cons, memo) ==
    IF memo # << >> /\ memo[1].input = cons THEN {memo[1].order} ELSE Rankings(cons)

\* mutant of Pct: the row's own share instead of the cumulative share
Pct_own(valores, k) ==
    LET total_valor == SumSeq(valores)
    IN IF total_valor > 0 THEN Frac(valores[k], total_valor) ELSE Frac(0, 1)

\* line 247: cumulative share of the k-th row, 0.0 when the total is 0
Pct(valores, k) ==
    LET total_valor == SumSeq(valores)
    IN IF total_valor > 0
       THEN Frac(SumSeq(SubSeq(valores, 1, k)), total_valor)
       ELSE Frac(0, 1)

\* mutant of Cut: bins closed on the left (right=False)
Cut_leftclosed(pct) ==
    IF FracLt(pct, Frac(0, 1)) THEN "nan"
    ELSE IF FracLt(pct, Frac(ABC_CUTS[1], 100)) THEN "A"
    ELSE IF FracLt(pct, Frac(ABC_CUTS[2], 100)) THEN "B"
    ELSE IF FracLe(pct, Frac(1, 1)) THEN "C"
    ELSE "nan"

\* line 249: pd.cut(bins=[0, cutA, cutB, 1], right-closed, include_lowest)
Cut(pct) ==
    IF FracLt(pct, Frac(0, 1)) THEN "nan"
    ELSE IF FracLe(pct, Frac(ABC_CUTS[1], 100)) THEN "A"
    ELSE IF FracLe(pct, Frac(ABC_CUTS[2], 100)) THEN "B"
    ELSE IF FracLe(pct, Frac(1, 1)) THEN "C"
    ELSE "nan"

\* mutant of AggOf: the first row is put in class A whatever its share
AggOf_rank1A(cons, o) ==
    LET rows == [k \in DOMAIN o |-> GroupRow(cons, o[k])]
        valores == [k \in DOMAIN o |-> rows[k].valor]
    IN [k \in DOMAIN o |->
           LET pct == Pct(valores, k)
           IN [itemcode |-> rows[k].itemcode, itemname |-> rows[k].itemname,
               valor |-> rows[k].valor, unidades |-> rows[k].unidades,
               pct |-> pct, ABC |-> IF k = 1 THEN "A" ELSE Cut(pct)]]

\* lines 240-249: the ranking table for one order of the rows
AggOf(cons, o) ==
    LET rows == [k \in DOMAIN o |-> GroupRow(cons, o[k])]
        valores == [k \in DOMAIN o |-> rows[k].valor]
    IN [k \in DOMAIN o |->
           LET pct == Pct(valores, k)
           IN [itemcode |-> rows[k].itemcode, itemname |-> rows[k].itemname,
               valor |-> rows[k].valor, unidades |-> rows[k].unidades,
               pct |-> pct, ABC |-> Cut(pct)]]

\* ------------------------------------- run(): monthly demand aggregator
\* the records of one item code
RecordsOf(iss, i) == SelectSeq(iss, LAMBDA r : r.itemcode = i)

\* resample("ME") within one group: every month from the group's first to
\* the group's last month
OwnSpan(iss, i) ==
    LET ms == {r.date : r \in Range(RecordsOf(iss, i))}
        lo == CHOOSE m \in ms : \A x \in ms : m <= x
        hi == CHOOSE m \in ms : \A x \in ms : m >= x
    IN lo..hi

\* mutant of BinSum: the bin keeps its last record instead of the sum
BinSum_last(iss, i, m) ==
    LET sel == SelectSeq(iss, LAMBDA r : r.itemcode = i /\ r.date = m)
    IN IF sel = << >> THEN 0 ELSE sel[Len(sel)].qty

\* .sum() of one (item, month) bin
BinSum(iss, i, m) ==
    LET sel == SelectSeq(iss, LAMBDA r : r.itemcode = i /\ r.date = m)
    IN SumSeq([k \in DOMAIN sel |-> sel[k].qty])

\* unstack: the columns are the months of any group's resampled index
Columns(iss) == UNION {OwnSpan(iss, i) : i \in ItemCodes(iss)}

\* lines 252-255
Mens(iss) ==
    [i \in ItemCodes(iss) |->
        [m \in Columns(iss) |->
            IF m \in OwnSpan(iss, i) THEN BinSum(iss, i, m) ELSE 0]]

\* ------------------------------------ run(): variability classifier (XYZ)
NaN == [nan |-> TRUE, num |-> 0, den |-> 1]
Num(n, d) == [nan |-> FALSE, num |-> n, den |-> d]

RowSum(row) == SumSeq([k \in 1..Cardinality(DOMAIN row) |->
                          row[Ascending(DOMAIN row)[k]]])
RowSumSq(row) == SumSeq([k \in 1..Cardinality(DOMAIN row) |->
                            row[Ascending(DOMAIN row)[k]] * row[Ascending(DOMAIN row)[k]]])

\* mens.mean(axis=1)
RowMean(row) == Num(RowSum(row), Cardinality(DOMAIN row))

\* mutant of RowStd: the population deviation (ddof=0)
RowStd_ddof0(row) ==
    LET n == Cardinality(DOMAIN row)
    IN Num(n * RowSumSq(row) - RowSum(row) * RowSum(row), n * n)

\* mens.std(axis=1, ddof=1), kept as the variance under the root: NaN for
\* fewer than 2 columns
RowStd(row) ==
    LET n == Cardinality(DOMAIN row)
    IN IF n < 2 THEN NaN
       ELSE Num(n * RowSumSq(row) - RowSum(row) * RowSum(row), n * (n - 1))

\* line 256: .replace(0, np.nan)
ZeroToNaN(v) == IF ~v.nan /\ v.num = 0 THEN NaN ELSE v

\* line 258: std/mean, kept as its square var/mean^2; a NaN operand or a zero
\* divisor gives NaN (inf is replaced by NaN)
CV(std, mean) ==
    IF std.nan \/ mean.nan \/ mean.num = 0 THEN NaN
    ELSE Num(std.num * mean.den * mean.den, std.den * mean.num * mean.num)

\* cv <= cut/100 for cv >= 0 kept as cv^2
CvLe(cv, cut) == cv.num * 100 * 100 <= cut * cut * cv.den

\* mutant of XyzClass: the cut points belong to the upper class
XyzClass_strict(cv) ==
    IF ~cv.nan /\ ~CvLe(cv, XYZ_CUTS[2]) THEN "Z"
    ELSE IF cv.nan THEN "Z"
    ELSE IF cv.num * 100 * 100 < XYZ_CUTS[1] * XYZ_CUTS[1] * cv.den THEN "X"
    ELSE IF cv.num * 100 * 100 < XYZ_CUTS[2] * XYZ_CUTS[2] * cv.den THEN "Y"
    ELSE "Z"

\* lines 259-261
XyzClass(cv) ==
    IF ~cv.nan /\ CvLe(cv, XYZ_CUTS[1]) THEN "X"
    ELSE IF ~cv.nan /\ ~CvLe(cv, XYZ_CUTS[1]) /\ CvLe(cv, XYZ_CUTS[2]) THEN "Y"
    ELSE "Z"

\* lines 256-261
Xyz(m) ==
    [i \in DOMAIN m |->
        LET cv == CV(RowStd(m[i]), ZeroToNaN(RowMean(m[i])))
        IN [cv |-> cv, XYZ |-> XyzClass(cv)]]

\* ------------------------------------------------------- run(): master
\* agg.set_index("itemcode")[col].reindex(mens.index)
AggRow(a, i) == a[CHOOSE k \in DOMAIN a : a[k].itemcode = i]

\* mutant of UnitCost: an item without a price costs 0
UnitCost_zero(p, i) == IF i \in DOMAIN p THEN p[i].avgprice ELSE 0

\* line 274: prices_df avgprice reindexed on the master, 1.0 when absent
UnitCost(p, i) == IF i \in DOMAIN p THEN p[i].avgprice ELSE 1

\* mutant of Master: ACV leaves the unit cost out
Master_acvqty(a, m, x, p) ==
    [i \in DOMAIN m |->
        [item_name |-> AggRow(a, i).itemname,
         monthly_mean |-> RowMean(m[i]),
         monthly_std |-> RowStd(m[i]),
         annual_qty |-> RowSum(m[i]),
         ABC |-> AggRow(a, i).ABC,
         XYZ |-> x[i].XYZ,
         unit_cost |-> UnitCost(p, i),
         ACV |-> RowSum(m[i])]]

\* lines 264-276
Master(a, m, x, p) ==
    [i \in DOMAIN m |->
        [item_name |-> AggRow(a, i).itemname,
         monthly_mean |-> RowMean(m[i]),
         monthly_std |-> RowStd(m[i]),
         annual_qty |-> RowSum(m[i]),
         ABC |-> AggRow(a, i).ABC,
         XYZ |-> x[i].XYZ,
         unit_cost |-> UnitCost(p, i),
         ACV |-> RowSum(m[i]) * UnitCost(p, i)]]

\* ---------------------------------------------- run(): supplier resolver
\* astype(str) of a name: a null name reads "nan"
StrOf(name) == IF name = NaNName THEN <<"n","a","n">> ELSE name

Lower(c) ==
    CASE c = "H" -> "h" [] c = "E" -> "e" [] c = "L" -> "l" [] c = "I" -> "i"
      [] c = "C" -> "c" [] c = "A" -> "a" [] c = "P" -> "p" [] c = "U" -> "u"
      [] c = "M" -> "m" [] OTHER -> c

\* \w of the characters that occur in names
WordChars == {"h","e","l","i","c","a","p","u","m","n","_"}
IsWord(s, k) == k \in DOMAIN s /\ Lower(s[k]) \in WordChars

\* mutant of ContainsHeliWord: 'heli' is searched without the word boundaries
ContainsHeliWord_substring(s) ==
    \E k \in 1..Len(s) :
        /\ k + 3 <= Len(s)
        /\ <<Lower(s[k]), Lower(s[k+1]), Lower(s[k+2]), Lower(s[k+3])>>
               = <<"h","e","l","i">>

\* re.search(r"\bheli\b", s, re.IGNORECASE)
ContainsHeliWord(s) ==
    \E k \in 1..Len(s) :
        /\ k + 3 <= Len(s)
        /\ <<Lower(s[k]), Lower(s[k+1]), Lower(s[k+2]), Lower(s[k+3])>>
               = <<"h","e","l","i">>
        /\ ~IsWord(s, k - 1)
        /\ ~IsWord(s, k + 4)

\* mutant of SupplierOf: the TVH list is applied after the HELI rule
SupplierOf_tvhlast(i, name, heli, tvh) ==
    LET s0 == "NACIONAL"
        s1 == IF i \in heli \/ ContainsHeliWord(StrOf(name)) THEN "HELI" ELSE s0
    IN IF i \in tvh THEN "TVH" ELSE s1

\* lines 285-287
SupplierOf(i, name, heli, tvh) ==
    LET s0 == "NACIONAL"
        s1 == IF i \in tvh THEN "TVH" ELSE s0
    IN IF i \in heli \/ ContainsHeliWord(StrOf(name)) THEN "HELI" ELSE s1

\* lines 285-287
SupplierCol(m, heli, tvh) ==
    [i \in DOMAIN m |-> SupplierOf(i, m[i].item_name, heli, tvh)]

\* ---------------------------------------------------------- pick_z, eoq
InDict(k, d) == k \in DOMAIN d

\* mutant of pick_z: the XYZ level replaces the ABC level
pick_z_last(a, x) ==
    LET z0 == Z_DEFAULT
        z1 == IF InDict(a, Z_BY_ABC) THEN Z_BY_ABC[a] ELSE z0
    IN IF InDict(x, Z_BY_XYZ) THEN Z_BY_XYZ[x] ELSE z1

\* lines 52-58
pick_z(a, x) ==
    LET z0 == Z_DEFAULT
        z1 == IF InDict(a, Z_BY_ABC) THEN Z_BY_ABC[a] ELSE z0
    IN IF InDict(x, Z_BY_XYZ) THEN Max(z1, Z_BY_XYZ[x]) ELSE z1

\* the value sqrt(n/d), or the ZeroDivisionError of a division by 0
Root(n, d) == [raised |-> FALSE, num |-> n, den |-> d]
ZeroDivisionError == [raised |-> TRUE, num |-> 0, den |-> 0]

\* an argument is None or a number: << >> or <<v>>
None == << >>
Some(v) == <<v>>

\* line 47: float(x or 0)
FloatOr0(x) == IF x = None \/ x[1] = 0 THEN 0 ELSE x[1]

\* mutant of eoq: the guard forgets the holding cost
eoq_noholdguard(D0, S0, H0, C0) ==
    LET D == FloatOr0(D0)
        S == FloatOr0(S0)
        H == FloatOr0(H0)
        C == FloatOr0(C0)
    IN IF D <= 0 \/ S <= 0 THEN Root(0, 1)
       ELSE IF H * C = 0 THEN ZeroDivisionError
       ELSE Root(2 * D * S, H * C)

\* lines 46-50
eoq(D0, S0, H0, C0) ==
    LET D == FloatOr0(D0)
        S == FloatOr0(S0)
        H == FloatOr0(H0)
        C == FloatOr0(C0)
    IN IF D <= 0 \/ S <= 0 \/ H * C <= 0 THEN Root(0, 1)
       ELSE IF H * C = 0 THEN ZeroDivisionError
       ELSE Root(2 * D * S, H * C)

\* ------------------------------------------------------ run(): lead time
\* config.yaml: missing, or a file whose policy.lead_time_by_supplier is a map
\* from supplier names to days (the empty map when the key is absent)
NoFile == [file |-> FALSE, lead_time_by_supplier |-> << >>]
ConfigFile(m) == [file |-> TRUE, lead_time_by_supplier |-> m]

\* line 289
LT_MAP_DEFAULT == [HELI |-> 90, TVH |-> 45, NACIONAL |-> 3]

\* Series.map(d).fillna(LT_DEFAULT)
MapOrDefault(d, s) == IF s \in DOMAIN d THEN d[s] ELSE LT_DEFAULT

\* mutant of LeadTimeOf: every supplier gets the global default
LeadTimeOf_global(s, c) == LT_DEFAULT

\* lines 290-301
LeadTimeOf(s, c) ==
    IF c.file /\ DOMAIN c.lead_time_by_supplier # {}
    THEN MapOrDefault(c.lead_time_by_supplier, s)
    ELSE MapOrDefault(LT_MAP_DEFAULT, s)

LeadTimeCol(sup, c) == [i \in DOMAIN sup |-> LeadTimeOf(sup[i], c)]

\* ------------------------------------------------- run(): stock policy
\* Policy quantities are sums of a fraction and of terms coef * sqrt(rad), all
\* parts non-negative: consumption is clipped at 0 and lead times are not
\* negative.
Term(coef, rad) == [coef |-> coef, rad |-> rad]
Surd(rat, roots) == [rat |-> rat, roots |-> roots]
FracAdd(a, b) == Frac(a.num * b.den + b.num * a.den, a.den * b.den)
SurdAdd(a, b) == Surd(FracAdd(a.rat, b.rat), a.roots \o b.roots)
TermPos(t) == t.coef.num > 0 /\ t.rad.num > 0
SurdPos(a) == a.rat.num > 0 \/ \E k \in DOMAIN a.roots : TermPos(a.roots[k])

\* Series.fillna(0) of a mean or of a variance
Fillna0(v) == IF v.nan THEN Frac(0, 1) ELSE Frac(v.num, v.den)

\* line 307: z_level * sqrt(lead_time_days) * daily_std.fillna(0), with
\* daily_std = monthly_std / 30 (line 280)
SafetyStock(z, lt, std) ==
    LET var == Fillna0(std)
    IN Surd(Frac(0, 1),
            <<Term(Frac(z, 100 * DaysPerMonth), Frac(lt * var.num, var.den))>>)

\* mutant of ReorderPoint: the safety stock is left out
ReorderPoint_noSS(mean, lt, ss) ==
    LET m == Fillna0(mean)
    IN Surd(Frac(m.num * lt, m.den * DaysPerMonth), << >>)

\* line 308: daily_mean.fillna(0) * lead_time_days + SS, with
\* daily_mean = monthly_mean / 30 (line 279)
ReorderPoint(mean, lt, ss) ==
    LET m == Fillna0(mean)
    IN SurdAdd(Surd(Frac(m.num * lt, m.den * DaysPerMonth), << >>), ss)

\* line 311: eoq(D, ORDER_COST, HOLDING_RATE, C); HOLDING_RATE is passed in
\* hundredths, which the radicand undoes
EoqOf(D, C) ==
    LET r == eoq(Some(D), Some(ORDER_COST), Some(HOLDING_RATE), Some(C))
    IN Surd(Frac(0, 1), <<Term(Frac(1, 1), Frac(100 * r.num, r.den))>>)

\* mutant of IsBelow: a stock equal to the reorder point is below it
IsBelow_orequal(onhand, rop) == onhand = 0 /\ (SurdPos(rop) \/ ~SurdPos(rop))

\* line 320: OnHand < ROP, for OnHand = 0
IsBelow(onhand, rop) == onhand = 0 /\ SurdPos(rop)

\* lines 302-320
PolicyOf(row, lt) ==
    LET z == pick_z(row.ABC, row.XYZ)
        ss == SafetyStock(z, lt, row.monthly_std)
        rop == ReorderPoint(row.monthly_mean, lt, ss)
        q == EoqOf(row.annual_qty, row.unit_cost)
    IN [z_level |-> z, lead_time_days |-> lt, SS |-> ss, ROP |-> rop,
        EOQ |-> q, SMIN |-> rop, SMAX |-> SurdAdd(rop, q), OnHand |-> 0,
        BelowROP |-> IsBelow(0, rop)]

PolicyCols(m, lt) == [i \in DOMAIN m |-> PolicyOf(m[i], lt[i])]

\* ------------------------------------------------------ run(): outputs
\* the order of the class labels as strings
LabelRank(c) ==
    CASE c = "A" -> 1 [] c = "B" -> 2 [] c = "C" -> 3
      [] c = "X" -> 1 [] c = "Y" -> 2 [] c = "Z" -> 3
      [] OTHER -> 4

\* mutant of RowBefore: annual_qty ascending
RowBefore_qtyasc(a, b) ==
    \/ LabelRank(a.ABC) < LabelRank(b.ABC)
    \/ /\ a.ABC = b.ABC
       /\ \/ LabelRank(a.XYZ) < LabelRank(b.XYZ)
          \/ a.XYZ = b.XYZ /\ a.annual_qty < b.annual_qty

\* line 327: the key order of sort_values(["ABC","XYZ","annual_qty"],
\* ascending=[True, True, False])
RowBefore(a, b) ==
    \/ LabelRank(a.ABC) < LabelRank(b.ABC)
    \/ /\ a.ABC = b.ABC
       /\ \/ LabelRank(a.XYZ) < LabelRank(b.XYZ)
          \/ a.XYZ = b.XYZ /\ a.annual_qty > b.annual_qty

\* line 327: sorting by several columns is stable, so rows with equal keys
\* keep the order of reset_index(), the item code order
SortValues(rows) ==
    LET n == Len(rows)
        o == CHOOSE f \in [1..n -> 1..n] :
                 /\ \A j, k \in 1..n : j # k => f[j] # f[k]
                 /\ \A j, k \in 1..n :
                        j < k => \/ RowBefore(rows[f[j]], rows[f[k]])
                                 \/ /\ ~RowBefore(rows[f[k]], rows[f[j]])
                                    /\ f[j] < f[k]
    IN [k \in 1..n |-> rows[o[k]]]

\* lines 327-329: the profile rows without the supplier column
MasterOut(m, pol) ==
    LET codes == Ascending(DOMAIN m)
    IN SortValues([k \in DOMAIN codes |->
           [itemcode |-> codes[k], item_name |-> m[codes[k]].item_name,
            monthly_mean |-> m[codes[k]].monthly_mean,
            monthly_std |-> m[codes[k]].monthly_std,
            annual_qty |-> m[codes[k]].annual_qty,
            ABC |-> m[codes[k]].ABC, XYZ |-> m[codes[k]].XYZ,
            unit_cost |-> m[codes[k]].unit_cost, ACV |-> m[codes[k]].ACV,
            policy |-> pol[codes[k]]]])

\* line 331: (SMAX - OnHand).clip(lower=0); OnHand is a whole number and the
\* difference is clipped when its fraction part is negative
Suggested(smax, onhand) ==
    LET d == SurdAdd(smax, Surd(Frac(0 - onhand, 1), << >>))
    IN IF d.rat.num >= 0 THEN d ELSE Surd(Frac(0, 1), << >>)

\* lines 330-331
AlertsOut(mo) ==
    LET sel == SelectSeq(mo, LAMBDA r : r.policy.BelowROP)
    IN [k \in DOMAIN sel |->
           [row |-> sel[k],
            SuggestedOrderQty |-> Suggested(sel[k].policy.SMAX, sel[k].policy.OnHand)]]

\* ------------------------------------------------------ run(), as a whole
\* lines 226-342: the tables one call of run() writes, for every order the
\* value sort can give
RunTables(iss, parg, heli, tvh, c, memo) ==
    LET p == DefaultPrices(parg, iss)
        cons == Cons(iss, p)
    IN { LET a == AggOf(cons, o)
             m == Mens(iss)
             ma == Master(a, m, Xyz(m), p)
             lt == LeadTimeCol(SupplierCol(ma, heli, tvh), c)
             mo == MasterOut(ma, PolicyCols(ma, lt))
         IN [monthly_out |-> m, master_out |-> mo, alerts_out |-> AlertsOut(mo)] :
         o \in ValorSort(cons, memo) }

\* ------------------------------------------------------------------ Init
NotYet == << >>
NoCall == [fn |-> "none"]

\* demand scenarios: any records, no price table, no supplier lists
InitDemand ==
    /\ issues_df \in SeqsUpTo({Record(i, q, d) : i \in DemandItems,
                                                q \in DemandQtys, d \in DemandMonths},
                              MaxRecords)
    /\ prices_df = NoPrices
    /\ heli_set = {}
    /\ tvh_set = {}

\* one record per item of S, in code order
OneEach(S, q) ==
    [k \in 1..Cardinality(S) |-> Record(Ascending(S)[k], q[Ascending(S)[k]], 1)]

\* value scenarios: one record of one unit per item, any price table
InitValue ==
    /\ \E n \in Items : issues_df = OneEach(1..n, [i \in 1..n |-> 1])
    /\ \E S \in SUBSET Items :
          prices_df \in [S -> [itemname : {NoName}, avgprice : PriceVals]]
    /\ heli_set = {}
    /\ tvh_set = {}

\* series scenarios: one item with one record in each of the first n months
InitSeries ==
    /\ \E n \in Months :
          \E q \in [1..n -> Qtys] : issues_df = [k \in 1..n |-> Record(1, q[k], k)]
    /\ prices_df = NoPrices
    /\ heli_set = {}
    /\ tvh_set = {}

\* supplier scenarios: one record of i units per item i, any names and
\* supplier lists
InitSupplier ==
    /\ issues_df = OneEach(1..MaxSupplierItems, [i \in 1..MaxSupplierItems |-> i])
    /\ \E S \in SUBSET (1..MaxSupplierItems) :
          prices_df \in [S -> [itemname : Names, avgprice : {1}]]
    /\ heli_set \in SUBSET (1..MaxSupplierItems)
    /\ tvh_set \in SUBSET (1..MaxSupplierItems)

\* lead times a config.yaml gives, in days
LeadVals == {0, 7}
Suppliers == {"HELI", "TVH", "NACIONAL"}

\* config scenarios: one record of i units per item i, any supplier lists,
\* config.yaml
\* missing or overriding the lead time of any set of suppliers
InitConfig ==
    /\ issues_df = OneEach(1..MaxSupplierItems, [i \in 1..MaxSupplierItems |-> i])
    /\ prices_df = NoPrices
    /\ heli_set \in SUBSET (1..MaxSupplierItems)
    /\ tvh_set \in SUBSET (1..MaxSupplierItems)
    /\ \/ cfg = NoFile
       \/ \E S \in SUBSET Suppliers : \E m \in [S -> LeadVals] : cfg = ConfigFile(m)

\* order scenarios: one record per item with any positive quantity, no prices
InitOrder ==
    /\ \E q \in [Items -> 1..MaxQty] : issues_df = OneEach(Items, q)
    /\ prices_df = NoPrices
    /\ heli_set = {}
    /\ tvh_set = {}

\* worked scenarios: three items, each consuming one unit in each of the
\* first n months, n = 2 or 3, at a unit price of the price table; no lists,
\* no config
ScenarioPrices == {250, 750, 4000}
ScenarioItems == {1, 2, 3}

InitScenario ==
    /\ \E n \in {2, 3} :
          issues_df = [k \in 1..(n * 3) |->
                          Record(((k - 1) % 3) + 1, 1, ((k - 1) \div 3) + 1)]
    /\ prices_df \in [ScenarioItems -> [itemname : {NoName}, avgprice : ScenarioPrices]]
    /\ heli_set = {}
    /\ tvh_set = {}

\* raw movement rows: valid rows with a non-numeric, negative or positive
\* quantity, and rows of quantity 2 with a blank item code, an unparseable
\* date or both
RawRows ==
    [itemcode : {Cell(1)}, date : {Cell(1), Cell(2)},
     qty : {BadCell, Cell(-1), Cell(2)}]
    \cup [itemcode : {BadCell, Cell(1)}, date : {BadCell, Cell(1)}, qty : {Cell(2)}]

\* main() scenarios: any movement rows in a table with all its columns, no
\* price file, no lists, no config
InitMain ==
    /\ raw_moves \in UNION {[1..k -> RawRows] : k \in 0..MaxRecords}
    /\ moves_cols = MoveColumns
    /\ raw_prices = NoPriceFile
    /\ issues_df = NotYet
    /\ prices_df = NoPrices
    /\ heli_set = {}
    /\ tvh_set = {}
    /\ cfg = NoFile

\* column scenarios: one or two movement rows in a table with any of its
\* columns, and no price file or one with any of its columns and the price
\* of item 1
ColumnRows ==
    { [itemcode |-> Cell(1), date |-> Cell(1), qty |-> Cell(2)],
      [itemcode |-> Cell(1), date |-> Cell(2), qty |-> BadCell],
      [itemcode |-> BadCell, date |-> Cell(1), qty |-> Cell(2)] }

PriceCells == {BadCell, Cell(-1), Cell(3)}

InitColumns ==
    /\ raw_moves \in UNION {[1..k -> ColumnRows] : k \in 1..2}
    /\ moves_cols \in SUBSET MoveColumns
    /\ \/ raw_prices = NoPriceFile
       \/ \E cols \in SUBSET PriceColumns, S \in {{1}, {2}} :
             \E rows \in [S -> PriceCells] : raw_prices = PriceFile(cols, rows)
    /\ issues_df = NotYet
    /\ prices_df = NoPrices
    /\ heli_set = {}
    /\ tvh_set = {}
    /\ cfg = NoFile

\* run() called on its own
InitRun ==
    /\ pc = "start"
    /\ entry = "run"
    /\ raw_moves = NotYet
    /\ moves_cols = {}
    /\ raw_prices = NoPriceFile
    /\ \/ InitDemand /\ cfg = NoFile
       \/ InitSeries /\ cfg = NoFile
       \/ InitValue /\ cfg = NoFile
       \/ InitSupplier /\ cfg = NoFile
       \/ InitConfig
       \/ InitOrder /\ cfg = NoFile
       \/ InitScenario /\ cfg = NoFile

\* ---------------------------------------------------- picking-api at rest
\* The batch pipeline and the picking-api share no state: each specification
\* leaves the other's variables at rest.
Requests == {1, 2}              \* two concurrent HTTP requests
NoSession == [pc |-> "idle"]

MovesIdle ==
    /\ move = NotYet
    /\ stock = << >>

LedgerIdle ==
    /\ inventory_balance = << >>
    /\ movement = << >>
    /\ outbound_session = NotYet
    /\ count_session = NotYet

PrintIdle ==
    /\ print_jobs = << >>
    /\ agent = [pc |-> "off"]
    /\ printer = << >>
    /\ net = [token_valid |-> FALSE, faults |-> 0]

ServicesIdle ==
    /\ session = [p \in Requests |-> NoSession]
    /\ MovesIdle
    /\ LedgerIdle
    /\ PrintIdle

BatchIdle ==
    /\ pc = "service"
    /\ entry = "service"
    /\ call = NoCall
    /\ ret = NoCall
    /\ issues_df = NotYet
    /\ prices_df = NoPrices
    /\ prices_arg = NoPrices
    /\ heli_set = {}
    /\ tvh_set = {}
    /\ agg = NotYet
    /\ mens = NotYet
    /\ xyz = NotYet
    /\ master = NotYet
    /\ supplier = NotYet
    /\ cfg = NoFile
    /\ sorted_as = NotYet
    /\ lead_time = NotYet
    /\ policy = NotYet
    /\ master_out = NotYet
    /\ alerts_out = NotYet
    /\ out2 = NotYet
    /\ raw_moves = NotYet
    /\ moves_cols = {}
    /\ raw_prices = NoPriceFile

Init ==
    /\ ServicesIdle
    /\ \/ InitRun
       \/ pc = "main" /\ entry = "main" /\ InitMain
       \/ pc = "main" /\ entry = "main" /\ InitColumns
    /\ prices_arg = prices_df
    /\ sorted_as = NotYet
    /\ lead_time = NotYet
    /\ policy = NotYet
    /\ master_out = NotYet
    /\ alerts_out = NotYet
    /\ out2 = NotYet
    /\ agg = NotYet
    /\ mens = NotYet
    /\ xyz = NotYet
    /\ master = NotYet
    /\ supplier = NotYet
    /\ call = NoCall
    /\ ret = NoCall

\* --------------------------------------------------------------- actions
\* lines 358-359: load_inputs normalizes the prices, then the movements
LoadInputs ==
    /\ pc = "main"
    /\ PricesError(raw_prices) = NoError
    /\ MovesError(moves_cols) = NoError
    /\ prices_df' = NormalizePrices(raw_prices)
    /\ prices_arg' = NormalizePrices(raw_prices)
    /\ issues_df' = NormalizeMoves(raw_moves, moves_cols)
    /\ pc' = "loaded"
    /\ UNCHANGED <<agg, mens, xyz, master, supplier, sorted_as, lead_time,
                   policy, master_out, alerts_out, out2, fileVars, fnVars>>

\* lines 79, 94, 97: a missing column raises ValueError out of main()
LoadFails ==
    /\ pc = "main"
    /\ \/ PricesError(raw_prices) # NoError
       \/ MovesError(moves_cols) # NoError
    /\ ret' = [fn |-> "ValueError",
               message |-> IF PricesError(raw_prices) # NoError
                           THEN PricesError(raw_prices)
                           ELSE MovesError(moves_cols)]
    /\ pc' = "raised"
    /\ UNCHANGED <<call, pipeVars>>

\* lines 360-361: SystemExit("No hay movimientos validos tras normalizacion")
MainAbort ==
    /\ pc = "loaded"
    /\ Empty(issues_df)
    /\ pc' = "aborted"
    /\ UNCHANGED <<pipeVars, fnVars>>

\* line 363: main() calls run()
MainRun ==
    /\ pc = "loaded"
    /\ ~Empty(issues_df)
    /\ pc' = "start"
    /\ UNCHANGED <<pipeVars, fnVars>>

\* lines 230-249
ValueClassifier ==
    /\ pc = "start"
    /\ LET p == DefaultPrices(prices_df, issues_df)
           cons == Cons(issues_df, p)
       IN /\ prices_df' = p
          /\ \E o \in ValorSort(cons, sorted_as) :
                /\ agg' = AggOf(cons, o)
                /\ sorted_as' = <<[input |-> cons, order |-> o]>>
    /\ pc' = "abc"
    /\ UNCHANGED <<issues_df, mens, xyz, master, supplier, lead_time, policy,
                   master_out, alerts_out, out2, inputVars, fnVars>>

\* lines 252-255
MonthlyAggregator ==
    /\ pc = "abc"
    /\ mens' = Mens(issues_df)
    /\ pc' = "mens"
    /\ UNCHANGED <<issues_df, prices_df, agg, xyz, master, supplier, sorted_as,
                   lead_time, policy, master_out, alerts_out, out2, inputVars,
                   fnVars>>

\* lines 256-261
VariabilityClassifier ==
    /\ pc = "mens"
    /\ xyz' = Xyz(mens)
    /\ pc' = "xyz"
    /\ UNCHANGED <<issues_df, prices_df, agg, mens, master, supplier, sorted_as,
                   lead_time, policy, master_out, alerts_out, out2, inputVars,
                   fnVars>>

\* lines 264-276
BuildMaster ==
    /\ pc = "xyz"
    /\ master' = Master(agg, mens, xyz, prices_df)
    /\ pc' = "master"
    /\ UNCHANGED <<issues_df, prices_df, agg, mens, xyz, supplier, sorted_as,
                   lead_time, policy, master_out, alerts_out, out2, inputVars,
                   fnVars>>

\* lines 282-287
SupplierResolver ==
    /\ pc = "master"
    /\ supplier' = SupplierCol(master, heli_set, tvh_set)
    /\ pc' = "supplier"
    /\ UNCHANGED <<issues_df, prices_df, agg, mens, xyz, master, sorted_as,
                   lead_time, policy, master_out, alerts_out, out2, inputVars,
                   fnVars>>

\* lines 289-301
LeadTime ==
    /\ pc = "supplier"
    /\ lead_time' = LeadTimeCol(supplier, cfg)
    /\ pc' = "lead"
    /\ UNCHANGED <<issues_df, prices_df, agg, mens, xyz, master, supplier,
                   sorted_as, policy, master_out, alerts_out, out2, inputVars,
                   fnVars>>

\* lines 302-320
PolicyCalculator ==
    /\ pc = "lead"
    /\ policy' = PolicyCols(master, lead_time)
    /\ pc' = "policy"
    /\ UNCHANGED <<issues_df, prices_df, agg, mens, xyz, master, supplier,
                   sorted_as, lead_time, master_out, alerts_out, out2,
                   inputVars, fnVars>>

\* lines 326-342
Output ==
    /\ pc = "policy"
    /\ master_out' = MasterOut(master, policy)
    /\ alerts_out' = AlertsOut(MasterOut(master, policy))
    /\ pc' = "done"
    /\ UNCHANGED <<issues_df, prices_df, agg, mens, xyz, master, supplier,
                   sorted_as, lead_time, policy, out2, inputVars, fnVars>>

\* a second call of run() with the same arguments and the same config.yaml
Rerun ==
    /\ pc = "done"
    /\ \E t \in RunTables(issues_df, prices_arg, heli_set, tvh_set, cfg, sorted_as) :
          out2' = <<t>>
    /\ pc' = "rerun"
    /\ UNCHANGED <<issues_df, prices_df, agg, mens, xyz, master, supplier,
                   sorted_as, lead_time, policy, master_out, alerts_out,
                   inputVars, fnVars>>

Next ==
    \/ LoadInputs
    \/ LoadFails
    \/ MainAbort
    \/ MainRun
    \/ ValueClassifier
    \/ MonthlyAggregator
    \/ VariabilityClassifier
    \/ BuildMaster
    \/ SupplierResolver
    \/ LeadTime
    \/ PolicyCalculator
    \/ Output
    \/ Rerun

Spec == Init /\ [][Next]_vars

\* ------------------------------------------- calls of the pure functions
AbcArgs == {"A", "B", "C", "nan"}
XyzArgs == {"X", "Y", "Z", "nan"}
EoqArgs == {None} \cup {Some(v) : v \in (-1)..MaxArg}

\* ------------------------------------------------ app/auth.py: verify_password
\* A bcrypt hash carries its salt and the digest of the password under that
\* salt; the digest of two passwords under one salt is the same only for the
\* same password.
Passwords == {"Admin#1234", "wrong", "admin#1234", ""}
Salts == {"1nqmxCFIvossKXkg0vvicu", "N9qo8uLOickgx2ZMRZoMye"}
Digest(password, salt) == <<salt, password>>
Hashpw(password, salt) == [scheme |-> "2b", salt |-> salt, digest |-> Digest(password, salt)]
Malformed == [scheme |-> "plain", salt |-> "", digest |-> << >>]
StoredHashes == {Hashpw(p, s) : p \in Passwords \ {""}, s \in Salts} \cup {Malformed}
Returned(v) == [raised |-> "none", value |-> v]
Raised(exc) == [raised |-> exc, value |-> FALSE]

\* line 39: bcrypt.checkpw re-hashes the password with the salt of the stored
\* hash and compares; a hash it cannot parse raises ValueError("Invalid salt")
Checkpw(plain, hashed) ==
    IF hashed.scheme # "2b" THEN Raised("ValueError")
    ELSE Returned(Digest(plain, hashed.salt) = hashed.digest)

\* line 32: pwd_context.verify. With bcrypt>=4 behind passlib (broken) the
\* call raises ValueError; a hash of no known scheme raises UnknownHashError,
\* a ValueError
PwdContextVerify(plain, hashed, broken) ==
    IF broken \/ hashed.scheme # "2b" THEN Raised("ValueError")
    ELSE Returned(Digest(plain, hashed.salt) = hashed.digest)

\* mutant of verify_password: no fallback, a ValueError of passlib is a refusal
verify_password_nofallback(plain, hashed, broken) ==
    LET first == PwdContextVerify(plain, hashed, broken)
    IN IF first.raised = "ValueError" THEN Returned(FALSE) ELSE first

\* lines 30-41
verify_password(plain, hashed, broken) ==
    LET first == PwdContextVerify(plain, hashed, broken)
    IN IF first.raised = "ValueError"
       THEN LET second == Checkpw(plain, hashed)
            IN IF second.raised = "ValueError" THEN Returned(FALSE) ELSE second
       ELSE first

InitFn ==
    /\ ServicesIdle
    /\ pc = "call"
    /\ \/ \E a \in AbcArgs, x \in XyzArgs : call = [fn |-> "pick_z", a |-> a, x |-> x]
       \/ \E D, S, H, C \in EoqArgs :
             call = [fn |-> "eoq", D |-> D, S |-> S, H |-> H, C |-> C]
       \/ \E p \in Passwords, h \in StoredHashes, b \in BOOLEAN :
             call = [fn |-> "verify_password", plain |-> p, hashed |-> h, broken |-> b]
    /\ ret = NoCall
    /\ issues_df = NotYet
    /\ prices_df = NoPrices
    /\ heli_set = {}
    /\ tvh_set = {}
    /\ agg = NotYet
    /\ mens = NotYet
    /\ xyz = NotYet
    /\ master = NotYet
    /\ supplier = NotYet
    /\ prices_arg = NoPrices
    /\ cfg = NoFile
    /\ sorted_as = NotYet
    /\ lead_time = NotYet
    /\ policy = NotYet
    /\ master_out = NotYet
    /\ alerts_out = NotYet
    /\ out2 = NotYet
    /\ entry = "call"
    /\ raw_moves = NotYet
    /\ moves_cols = {}
    /\ raw_prices = NoPriceFile

CallPickZ ==
    /\ pc = "call"
    /\ call.fn = "pick_z"
    /\ ret' = [z |-> pick_z(call.a, call.x)]
    /\ pc' = "returned"
    /\ UNCHANGED <<call, pipeVars>>

CallEoq ==
    /\ pc = "call"
    /\ call.fn = "eoq"
    /\ ret' = eoq(call.D, call.S, call.H, call.C)
    /\ pc' = "returned"
    /\ UNCHANGED <<call, pipeVars>>

CallVerifyPassword ==
    /\ pc = "call"
    /\ call.fn = "verify_password"
    /\ ret' = verify_password(call.plain, call.hashed, call.broken)
    /\ pc' = "returned"
    /\ UNCHANGED <<call, pipeVars>>

NextFn ==
    \/ CallPickZ
    \/ CallEoq
    \/ CallVerifyPassword

SpecFn == InitFn /\ [][NextFn]_vars

\* ================================================= picking-api: confirm_move
\* app/routers/moves.py. Every request runs in a database session of its own
\* (deps.get_session); the engine is created with the defaults, so a session
\* is a PostgreSQL transaction at READ COMMITTED: each SELECT sees what is
\* committed when it runs, no row is locked by a read, and the ORM writes the
\* attribute values the request computed (UPDATE stock SET qty = <value>)
\* when the request commits. A request that raises never commits.
MaxStock == 3

MOVE_TYPE_MAPPING ==
    [PO |-> [type |-> "inbound", direction |-> 1],
     SO |-> [type |-> "outbound", direction |-> -1],
     TR |-> [type |-> "transfer", direction |-> -1],
     RT |-> [type |-> "return", direction |-> 1]]

Products == {"P1"}

\* schemas.MoveLineInput: qty > 0, qty_confirmed optional and >= 0
LineInput(item, qty, qc, from, to) ==
    [item_code |-> item, qty |-> qty, qty_confirmed |-> qc,
     location_from |-> from, location_to |-> to]

ConfirmPayloads ==
    { << >>,
      <<LineInput("P1", 2, None, "MAIN", "MAIN")>>,
      <<LineInput("P1", 2, Some(1), "MAIN", "MAIN")>>,
      <<LineInput("P1", 1, Some(2), "MAIN", "MAIN")>>,
      <<LineInput("P1", 1, None, "MAIN", "MAIN"),
        LineInput("P1", MaxStock, None, "MAIN", "MAIN")>>,
      <<LineInput("P9", 1, None, "MAIN", "MAIN")>>,
      <<LineInput("P1", 1, None, "DOCK", "DOCK")>> }

\* the request has answered: 200 after its commit, an error code otherwise
Answered(code) == [pc |-> "done", code |-> code]
\* HTTPException(status_code=400, detail=...)
Refused(detail) == [pc |-> "done", code |-> 400, detail |-> detail]

\* The Stock objects of one session: rows it loaded (by position in the
\* table, with the qty it loaded and the qty it holds now) and rows it added.
RowsAt(s, loc) ==
    {<<"row", k>> : k \in {j \in DOMAIN stock : stock[j].location = loc}}
        \cup {<<"new", k>> : k \in {j \in DOMAIN s.added : s.added[j].location = loc}}

QtyHeld(s, obj) ==
    IF obj[1] = "new" THEN s.added[obj[2]].qty
    ELSE IF obj[2] \in DOMAIN s.loaded THEN s.loaded[obj[2]].qty
    ELSE stock[obj[2]].qty

SetQty(s, obj, q) ==
    IF obj[1] = "new"
    THEN [s EXCEPT !.added[obj[2]].qty = q]
    ELSE [s EXCEPT !.loaded =
            [k \in DOMAIN s.loaded \cup {obj[2]} |->
                [was |-> IF k \in DOMAIN s.loaded THEN s.loaded[k].was ELSE stock[k].qty,
                 qty |-> IF k = obj[2] THEN q ELSE s.loaded[k].qty]]]

\* line 143
QtyConfirmed(line) ==
    IF line.qty_confirmed # None THEN line.qty_confirmed[1] ELSE line.qty

MoveLine(line) ==
    [item_code |-> line.item_code, qty |-> line.qty,
     qty_confirmed |-> QtyConfirmed(line),
     location_from |-> line.location_from, location_to |-> line.location_to]

\* lines 141-185: one pass of the loop; the session after it, or the error
\* the pass raises
LinePass(s) ==
    LET line == s.payload[s.i]
        qc == QtyConfirmed(line)
        direction == MOVE_TYPE_MAPPING[move.doc_type].direction
        target == IF direction > 0 THEN line.location_to ELSE line.location_from
        found == RowsAt(s, target)
        obj == CHOOSE o \in found : TRUE
        t == [s EXCEPT !.i = s.i + 1,
                       !.lines = Append(s.lines, MoveLine(line)),
                       !.confirmed_all = s.confirmed_all /\ ~(qc < line.qty)]
    IN IF line.item_code \notin Products THEN Answered(404)
       ELSE IF qc > line.qty THEN Answered(400)
       ELSE IF Cardinality(found) > 1 THEN Answered(500)
       ELSE IF direction > 0
            THEN IF found = {}
                 THEN [t EXCEPT !.added = Append(s.added, [location |-> target, qty |-> qc])]
                 ELSE SetQty(t, obj, QtyHeld(s, obj) + qc)
            ELSE IF found = {} \/ QtyHeld(s, obj) < qc THEN Answered(400)
                 ELSE SetQty(t, obj, QtyHeld(s, obj) - qc)

\* line 204: the flush writes every changed attribute and inserts new rows
CommitStock(s) ==
    [k \in DOMAIN stock |->
        IF k \in DOMAIN s.loaded /\ s.loaded[k].qty # s.loaded[k].was
        THEN [stock[k] EXCEPT !.qty = s.loaded[k].qty]
        ELSE stock[k]] \o s.added

InitMoves ==
    /\ BatchIdle
    /\ LedgerIdle
    /\ PrintIdle
    /\ \E d \in DOMAIN MOVE_TYPE_MAPPING :
          move = [doc_type |-> d, type |-> MOVE_TYPE_MAPPING[d].type,
                  status |-> "pending", lines |-> << >>]
    /\ \E q \in 0..MaxStock : stock = <<[location |-> "MAIN", qty |-> q]>>
    /\ session = [p \in Requests |-> NoSession]

\* lines 129-137: load the move with its lines and refuse what is settled
ConfirmGetMove(p) ==
    /\ session[p].pc = "idle"
    /\ \E payload \in ConfirmPayloads :
          session' = [session EXCEPT ![p] =
              IF move.status = "approved" THEN Answered(400)
              ELSE IF payload = << >> THEN Answered(400)
              ELSE IF move.lines # << >> THEN Answered(409)
              ELSE [pc |-> "lines", payload |-> payload, i |-> 1,
                    loaded |-> << >>, added |-> << >>, lines |-> << >>,
                    confirmed_all |-> TRUE]]
    /\ UNCHANGED <<move, stock, ledgerVars, printVars, batchVars>>

\* lines 141-185
ConfirmLine(p) ==
    /\ session[p].pc = "lines"
    /\ session[p].i <= Len(session[p].payload)
    /\ session' = [session EXCEPT ![p] = LinePass(session[p])]
    /\ UNCHANGED <<move, stock, ledgerVars, printVars, batchVars>>

\* lines 187-206
ConfirmCommit(p) ==
    /\ session[p].pc = "lines"
    /\ session[p].i > Len(session[p].payload)
    /\ stock' = CommitStock(session[p])
    /\ move' = [move EXCEPT
                  !.type = MOVE_TYPE_MAPPING[move.doc_type].type,
                  !.status = IF session[p].confirmed_all THEN "approved" ELSE "pending",
                  !.lines = move.lines \o session[p].lines]
    /\ session' = [session EXCEPT ![p] = Answered(200)]
    /\ UNCHANGED <<ledgerVars, printVars, batchVars>>

NextMoves ==
    \E p \in Requests :
        \/ ConfirmGetMove(p)
        \/ ConfirmLine(p)
        \/ ConfirmCommit(p)

SpecMoves == InitMoves /\ [][NextMoves]_vars

\* ============================================== picking-api: create_movement
\* app/routers/inventory_simple.py and app/stock_utils.py, for one item with no
\* batch and no serial. The statements of a request run in one transaction
\* at READ COMMITTED. _ensure_core_tables (line 190) runs CREATE UNIQUE INDEX
\* IF NOT EXISTS on inventory_balance (lines 64-71), which takes a SHARE lock
\* on the table and keeps it to the end of the transaction even when the
\* index exists; INSERT and UPDATE take ROW EXCLUSIVE, which conflicts with
\* the SHARE lock of another transaction. The UPDATEs are relative
\* (qty = qty + :q), so a transaction's writes are the rows it inserted and
\* a change per row, applied to the table when it commits.
ENFORCE_STOCK == TRUE           \* ENFORCE_STOCK unset or "true"
Warehouses == {"MAIN", "WH2"}

\* schemas.MovementIn: qty > 0
MovementIn(type, qty, from, to) ==
    [type |-> type, qty |-> qty, warehouse_from |-> from, warehouse_to |-> to]

MovementRequests ==
    {MovementIn("OUTBOUND", q, Some("MAIN"), None) : q \in {1, MaxStock}}
        \cup {MovementIn("TRANSFER", q, Some("MAIN"), Some("WH2")) : q \in {1, MaxStock}}
        \cup { MovementIn("OUTBOUND", 1, None, None),
               MovementIn("TRANSFER", 1, Some("WH2"), Some("MAIN")),
               MovementIn("TRANSFER", 1, Some("MAIN"), None),
               MovementIn("RETURN", 1, None, Some("MAIN")),
               MovementIn("RETURN", 1, None, None),
               MovementIn("ADJUST", 2, None, Some("WH2")),
               MovementIn("ADJUST", 1, None, None) }

Conflicts(m, n) ==
    \/ m = "Share" /\ n = "RowExclusive"
    \/ m = "RowExclusive" /\ n = "Share"

LocksOf(q) == IF session[q].pc \in {"idle", "done"} THEN {} ELSE session[q].locks

\* the request has answered; op names the handler that served it
Done(op, code) == [pc |-> "done", code |-> code, op |-> op]

\* the table lock is granted when no other transaction holds a conflicting one
CanLock(p, mode) ==
    \A q \in Requests \ {p} : \A held \in LocksOf(q) : ~Conflicts(mode, held)

\* a new transaction of handler op: no lock, nothing written
Transaction(op) ==
    [pc |-> "begin", op |-> op, locks |-> {}, rows |-> {},
     delta |-> [w \in Warehouses |-> 0]]

\* the request must write inventory_balance and holds no ROW EXCLUSIVE yet
WantsRowExclusive(p) ==
    /\ session[p].pc \in {"sub", "add"}
    /\ "RowExclusive" \notin session[p].locks

\* what a SELECT qty of the transaction returns for a warehouse: its own
\* writes over the committed row; no row reads as None and counts as 0
\* (stock_utils.py line 76)
Available(s, w) ==
    IF w \in DOMAIN inventory_balance THEN inventory_balance[w] + s.delta[w]
    ELSE IF w \in s.rows THEN s.delta[w]
    ELSE 0

\* stock_utils.py lines 18-30 with 42-52 or 79-89: the row is there, its qty
\* changes by d
Write(s, w, d) ==
    [s EXCEPT !.locks = s.locks \cup {"RowExclusive"},
              !.rows = s.rows \cup {w},
              !.delta[w] = s.delta[w] + d]

\* the first check of the branch of mv.type fails (lines 196, 224, 254, 280)
MissingWarehouse(mv) ==
    CASE mv.type = "OUTBOUND" -> mv.warehouse_from = None
      [] mv.type = "TRANSFER" -> mv.warehouse_from = None \/ mv.warehouse_to = None
      [] OTHER -> mv.warehouse_to = None

\* scanning.py lines 238-264: an outbound session as create_outbound_session
\* leaves it, with the quantities scanned into it so far
OutboundSession(type, entries) ==
    [type |-> type, warehouse_from |-> "MAIN",
     warehouse_to |-> IF type = "TRANSFER" THEN Some("WH2") ELSE None,
     status |-> "open", entries |-> entries]

InitBalance ==
    \E q \in 0..MaxStock, W \in {{"MAIN"}, Warehouses} :
        inventory_balance = [w \in W |-> IF w = "MAIN" THEN q ELSE 0]

InitLedger ==
    /\ BatchIdle
    /\ MovesIdle
    /\ PrintIdle
    /\ session = [p \in Requests |-> NoSession]
    /\ InitBalance
    /\ movement = << >>
    /\ \E q \in {1, MaxStock} : outbound_session = OutboundSession("OUTBOUND", <<q>>)
    /\ count_session = NotYet

\* lines 186-190: the request arrives; _ensure_core_tables
MovementBegin(p) ==
    /\ session[p].pc = "idle"
    /\ CanLock(p, "Share")
    /\ \E mv \in MovementRequests :
          session' = [session EXCEPT ![p] =
              [Transaction("create_movement") EXCEPT
                  !.pc = "check", !.locks = {"Share"}] @@ [mv |-> mv]]
    /\ UNCHANGED <<ledgerVars, movesVars, printVars, batchVars>>

\* lines 192-197, 224, 254, 280, 313-315: _ensure_item and the branch's check
MovementCheck(p) ==
    /\ session[p].pc = "check"
    /\ session' = [session EXCEPT ![p] =
          IF MissingWarehouse(session[p].mv) THEN Refused("warehouse requerido")
          ELSE [session[p] EXCEPT !.pc =
                  IF session[p].mv.type \in {"OUTBOUND", "TRANSFER"} THEN "sub" ELSE "add"]]
    /\ UNCHANGED <<ledgerVars, movesVars, printVars, batchVars>>

\* stock_utils.py line 64: _ensure_balance_row of sub_stock
SubEnsureRow(p) ==
    /\ session[p].pc = "sub"
    /\ CanLock(p, "RowExclusive")
    /\ session' = [session EXCEPT ![p] =
          [Write(session[p], session[p].mv.warehouse_from[1], 0) EXCEPT !.pc = "select"]]
    /\ UNCHANGED <<ledgerVars, movesVars, printVars, batchVars>>

\* stock_utils.py lines 65-78: the SELECT and the check of sub_stock
SubSelect(p) ==
    /\ session[p].pc = "select"
    /\ LET s == session[p]
           available == Available(s, s.mv.warehouse_from[1])
       IN session' = [session EXCEPT ![p] =
              IF ENFORCE_STOCK /\ available < s.mv.qty
              THEN IF s.op = "create_movement"
                   THEN Refused("Stock insuficiente")   \* lines 313-315
                   ELSE Done(s.op, 500)       \* scanning.py lines 347-349
              ELSE [s EXCEPT !.pc = "update"]]
    /\ UNCHANGED <<ledgerVars, movesVars, printVars, batchVars>>

\* stock_utils.py lines 79-89: the UPDATE of sub_stock
SubUpdate(p) ==
    /\ session[p].pc = "update"
    /\ LET s == session[p]
       IN session' = [session EXCEPT ![p] =
              [Write(s, s.mv.warehouse_from[1], 0 - s.mv.qty) EXCEPT
                  !.pc = IF s.mv.type = "TRANSFER" THEN "add" ELSE "insert"]]
    /\ UNCHANGED <<ledgerVars, movesVars, printVars, batchVars>>

\* stock_utils.py lines 33-52: add_stock (lines 229, 256, 283)
AddStock(p) ==
    /\ session[p].pc = "add"
    /\ CanLock(p, "RowExclusive")
    /\ LET s == session[p]
       IN session' = [session EXCEPT ![p] =
              [Write(s, s.mv.warehouse_to[1], s.mv.qty) EXCEPT !.pc = "insert"]]
    /\ UNCHANGED <<ledgerVars, movesVars, printVars, batchVars>>

\* lines 201-221 (230, 257, 286) and 311-312: INSERT INTO movement, commit
MovementCommit(p) ==
    /\ session[p].pc = "insert"
    /\ session[p].op = "create_movement"
    /\ LET s == session[p]
       IN /\ inventory_balance' =
                [w \in DOMAIN inventory_balance \cup s.rows |->
                    (IF w \in DOMAIN inventory_balance THEN inventory_balance[w] ELSE 0)
                        + s.delta[w]]
          /\ movement' = Append(movement, s.mv)
    /\ session' = [session EXCEPT ![p] = Done("create_movement", 200)]
    /\ UNCHANGED <<outbound_session, count_session, movesVars, printVars, batchVars>>

\* scanning.py lines 292-313: confirm_outbound reads the session and the sum
\* of its entries
ConfirmOutboundBegin(p) ==
    /\ session[p].pc = "idle"
    /\ session' = [session EXCEPT ![p] =
          IF outbound_session.status # "open" THEN Done("confirm_outbound", 400)
          ELSE [Transaction("confirm_outbound") EXCEPT
                   !.pc = IF outbound_session.entries = << >> THEN "insert" ELSE "sub"]
               @@ [mv |-> MovementIn(outbound_session.type,
                                     SumSeq(outbound_session.entries),
                                     Some(outbound_session.warehouse_from),
                                     outbound_session.warehouse_to)]]
    /\ UNCHANGED <<ledgerVars, movesVars, printVars, batchVars>>

\* scanning.py lines 319-342: INSERT INTO movement, the session is confirmed,
\* commit
ConfirmOutboundCommit(p) ==
    /\ session[p].pc = "insert"
    /\ session[p].op = "confirm_outbound"
    /\ LET s == session[p]
       IN /\ inventory_balance' =
                [w \in DOMAIN inventory_balance \cup s.rows |->
                    (IF w \in DOMAIN inventory_balance THEN inventory_balance[w] ELSE 0)
                        + s.delta[w]]
          /\ movement' = IF s.mv.qty = 0 THEN movement ELSE Append(movement, s.mv)
    /\ outbound_session' = [outbound_session EXCEPT !.status = "confirmed"]
    /\ session' = [session EXCEPT ![p] = Done("confirm_outbound", 200)]
    /\ UNCHANGED <<count_session, movesVars, printVars, batchVars>>

\* lines 316-318: two transactions each hold SHARE and wait for ROW
\* EXCLUSIVE; PostgreSQL aborts one of them, the request answers 500
DeadlockAbort(p) ==
    /\ WantsRowExclusive(p)
    /\ ~CanLock(p, "RowExclusive")
    /\ "Share" \in LocksOf(p)
    /\ \E q \in Requests \ {p} : WantsRowExclusive(q) /\ "Share" \in LocksOf(q)
    /\ session' = [session EXCEPT ![p] = Answered(500)]
    /\ UNCHANGED <<ledgerVars, movesVars, printVars, batchVars>>

NextLedger ==
    \E p \in Requests :
        \/ MovementBegin(p)
        \/ MovementCheck(p)
        \/ SubEnsureRow(p)
        \/ SubSelect(p)
        \/ SubUpdate(p)
        \/ AddStock(p)
        \/ MovementCommit(p)
        \/ DeadlockAbort(p)
        \/ ConfirmOutboundBegin(p)
        \/ ConfirmOutboundCommit(p)

SpecLedger == InitLedger /\ [][NextLedger]_vars

\* ================================================ picking-api: scan sessions
\* app/routers/scanning.py: one count session and one outbound session.
\* _ensure_scan_tables only runs CREATE TABLE IF NOT EXISTS, which locks no
\* existing table.
ScanQtys == {1, 2}

InitScan ==
    /\ BatchIdle
    /\ MovesIdle
    /\ PrintIdle
    /\ session = [p \in Requests |-> NoSession]
    /\ InitBalance
    /\ movement = << >>
    /\ \E t \in {"OUTBOUND", "TRANSFER"}, q \in {0, 1, MaxStock} :
          outbound_session = OutboundSession(t, IF q = 0 THEN << >> ELSE <<q>>)
    /\ count_session = [warehouse_code |-> "MAIN", status |-> "open", entries |-> << >>]

\* lines 267-277: scan_outbound reads the status of the session
ScanOutboundBegin(p) ==
    /\ session[p].pc = "idle"
    /\ \E q \in ScanQtys :
          session' = [session EXCEPT ![p] =
              IF outbound_session.status # "open" THEN Done("scan_outbound", 400)
              ELSE [Transaction("scan_outbound") EXCEPT !.pc = "entry"] @@ [qty |-> q]]
    /\ UNCHANGED <<ledgerVars, movesVars, printVars, batchVars>>

\* lines 278-288: INSERT INTO outbound_entry, commit
ScanOutboundCommit(p) ==
    /\ session[p].pc = "entry"
    /\ session[p].op = "scan_outbound"
    /\ outbound_session' =
          [outbound_session EXCEPT !.entries = Append(@, session[p].qty)]
    /\ session' = [session EXCEPT ![p] = Done("scan_outbound", 200)]
    /\ UNCHANGED <<inventory_balance, movement, count_session, movesVars, printVars, batchVars>>

\* lines 111-121: scan_count reads the status of the session
ScanCountBegin(p) ==
    /\ session[p].pc = "idle"
    /\ \E q \in ScanQtys :
          session' = [session EXCEPT ![p] =
              IF count_session.status # "open" THEN Done("scan_count", 400)
              ELSE [Transaction("scan_count") EXCEPT !.pc = "entry"] @@ [qty |-> q]]
    /\ UNCHANGED <<ledgerVars, movesVars, printVars, batchVars>>

\* lines 122-132: INSERT INTO count_entry, commit
ScanCountCommit(p) ==
    /\ session[p].pc = "entry"
    /\ session[p].op = "scan_count"
    /\ count_session' = [count_session EXCEPT !.entries = Append(@, session[p].qty)]
    /\ session' = [session EXCEPT ![p] = Done("scan_count", 200)]
    /\ UNCHANGED <<inventory_balance, movement, outbound_session, movesVars, printVars, batchVars>>

\* lines 135-148: finalize_count reads the status of the session
FinalizeCountBegin(p) ==
    /\ session[p].pc = "idle"
    /\ session' = [session EXCEPT ![p] =
          IF count_session.status # "open" THEN Done("finalize_count", 400)
          ELSE [Transaction("finalize_count") EXCEPT !.pc = "close"]]
    /\ UNCHANGED <<ledgerVars, movesVars, printVars, batchVars>>

\* lines 150-196: the differences are computed for the answer; the session
\* is closed, commit
FinalizeCountCommit(p) ==
    /\ session[p].pc = "close"
    /\ count_session' = [count_session EXCEPT !.status = "closed"]
    /\ session' = [session EXCEPT ![p] = Done("finalize_count", 200)]
    /\ UNCHANGED <<inventory_balance, movement, outbound_session, movesVars, printVars, batchVars>>

NextScan ==
    \E p \in Requests :
        \/ ScanOutboundBegin(p)
        \/ ScanOutboundCommit(p)
        \/ ConfirmOutboundBegin(p)
        \/ SubEnsureRow(p)
        \/ SubSelect(p)
        \/ SubUpdate(p)
        \/ AddStock(p)
        \/ ConfirmOutboundCommit(p)
        \/ ScanCountBegin(p)
        \/ ScanCountCommit(p)
        \/ FinalizeCountBegin(p)
        \/ FinalizeCountCommit(p)

SpecScan == InitScan /\ [][NextScan]_vars

\* ===================================================== print agent and queue
\* host/print-agent/agent.py run() against app/routers/printing.py. The agent
\* is one sequential loop; the API serves each of its requests in a
\* transaction of its own. The agent is configured either with a service
\* token, which the API always accepts, or with a login, whose bearer token
\* the API stops accepting when it expires.
MaxJobs == 2
MaxFaults == 2      \* expiries, failed requests and printer errors in a run

Queued == {j \in DOMAIN print_jobs : print_jobs[j].status = "queued"}

\* printing.py lines 84-87: the ids of the jobs in a status, oldest first
RECURSIVE JobsIn(_, _)
JobsIn(S, from) ==
    IF from > Len(print_jobs) THEN << >>
    ELSE IF from \in S THEN <<from>> \o JobsIn(S, from + 1)
    ELSE JobsIn(S, from + 1)

\* printing.py lines 25-31: _resolve_actor lets the request in
Authorized ==
    \/ agent.auth = "service_token"
    \/ agent.bearer /\ net.token_valid

Fault == net.faults < MaxFaults
AfterFault == [net EXCEPT !.faults = net.faults + 1]

\* printing.py lines 111-120: ack_job
AckJob(job, status) ==
    [job EXCEPT !.status = status,
                !.attempts = IF status \in {"error", "retry"}
                             THEN job.attempts + 1 ELSE job.attempts]

NextJob == [agent EXCEPT !.pc = "jobs", !.i = agent.i + 1]

InitPrint ==
    /\ BatchIdle
    /\ MovesIdle
    /\ LedgerIdle
    /\ session = [p \in Requests |-> NoSession]
    /\ print_jobs = << >>
    /\ printer = << >>
    /\ net = [token_valid |-> FALSE, faults |-> 0]
    /\ \E auth \in {"service_token", "login"} :
          agent = [pc |-> "poll", auth |-> auth, bearer |-> FALSE,
                   jobs |-> << >>, i |-> 1]

\* printing.py lines 34-73: enqueue_product_label
Enqueue ==
    /\ Len(print_jobs) < MaxJobs
    /\ print_jobs' = Append(print_jobs, [status |-> "queued", attempts |-> 0])
    /\ printer' = Append(printer, 0)
    /\ UNCHANGED <<agent, net, session, movesVars, ledgerVars, batchVars>>

\* the bearer token of the agent expires (auth.py lines 48-52, 61-68)
TokenExpires ==
    /\ net.token_valid
    /\ Fault
    /\ net' = [AfterFault EXCEPT !.token_valid = FALSE]
    /\ UNCHANGED <<print_jobs, agent, printer, session, movesVars, ledgerVars, batchVars>>

\* agent.py lines 160-167: ensure_authorization logs in for a fresh token
AgentLogin ==
    /\ agent.pc = "poll"
    /\ agent.auth = "login"
    /\ ~agent.bearer
    /\ agent' = [agent EXCEPT !.bearer = TRUE]
    /\ net' = [net EXCEPT !.token_valid = TRUE]
    /\ UNCHANGED <<print_jobs, printer, session, movesVars, ledgerVars, batchVars>>

\* agent.py lines 169-180: GET /print/jobs?status=queued
AgentFetch ==
    /\ agent.pc = "poll"
    /\ agent.auth = "login" => agent.bearer
    /\ \/ /\ Authorized
          /\ agent' = [agent EXCEPT !.pc = "jobs", !.jobs = JobsIn(Queued, 1), !.i = 1]
          /\ net' = net
       \/ /\ ~Authorized                  \* lines 174-178
          /\ agent' = [agent EXCEPT !.bearer = FALSE]
          /\ net' = net
       \/ /\ Fault                        \* lines 211-212
          /\ agent' = agent
          /\ net' = AfterFault
    /\ UNCHANGED <<print_jobs, printer, session, movesVars, ledgerVars, batchVars>>

\* agent.py lines 181-192: send_raw_to_printer
AgentSend ==
    /\ agent.pc = "jobs"
    /\ agent.i <= Len(agent.jobs)
    /\ \/ /\ printer' = [printer EXCEPT ![agent.jobs[agent.i]] = @ + 1]
          /\ agent' = [agent EXCEPT !.pc = "ack"]
          /\ net' = net
       \/ /\ Fault                        \* the spooler raises
          /\ printer' = printer
          /\ agent' = [agent EXCEPT !.pc = "failed"]
          /\ net' = AfterFault
    /\ UNCHANGED <<print_jobs, session, movesVars, ledgerVars, batchVars>>

\* agent.py lines 196-203: POST ack {"status": "sent"}
AgentAckSent ==
    /\ agent.pc = "ack"
    /\ \/ /\ Authorized
          /\ print_jobs' = [print_jobs EXCEPT ![agent.jobs[agent.i]] = AckJob(@, "sent")]
          /\ agent' = NextJob
          /\ net' = net
       \/ /\ ~Authorized                  \* lines 201-203
          /\ print_jobs' = print_jobs
          /\ agent' = [NextJob EXCEPT !.bearer = FALSE]
          /\ net' = net
       \/ /\ Fault                        \* the request raises: line 204
          /\ print_jobs' = print_jobs
          /\ agent' = [agent EXCEPT !.pc = "failed"]
          /\ net' = AfterFault
    /\ UNCHANGED <<printer, session, movesVars, ledgerVars, batchVars>>

\* agent.py lines 204-210: POST ack {"status": "error"}
AgentAckError ==
    /\ agent.pc = "failed"
    /\ \/ /\ Authorized
          /\ print_jobs' = [print_jobs EXCEPT ![agent.jobs[agent.i]] = AckJob(@, "error")]
          /\ agent' = NextJob
          /\ net' = net
       \/ /\ ~Authorized                  \* the 401 answer is not looked at
          /\ print_jobs' = print_jobs
          /\ agent' = NextJob
          /\ net' = net
       \/ /\ Fault                        \* the request raises: lines 211-213
          /\ print_jobs' = print_jobs
          /\ agent' = [agent EXCEPT !.pc = "poll"]
          /\ net' = AfterFault
    /\ UNCHANGED <<printer, session, movesVars, ledgerVars, batchVars>>

\* agent.py line 213: the jobs of this poll are done
AgentSleep ==
    /\ agent.pc = "jobs"
    /\ agent.i > Len(agent.jobs)
    /\ agent' = [agent EXCEPT !.pc = "poll"]
    /\ UNCHANGED <<print_jobs, printer, net, session, movesVars, ledgerVars, batchVars>>

NextPrint ==
    \/ Enqueue
    \/ TokenExpires
    \/ AgentLogin
    \/ AgentFetch
    \/ AgentSend
    \/ AgentAckSent
    \/ AgentAckError
    \/ AgentSleep

SpecPrint == InitPrint /\ [][NextPrint]_vars

\* =================================================================== claims
\* Quantities the claims are stated in, computed from the inputs alone.

\* the unit price the pipeline values item i at: its price-table entry, 1
\* when the item or the whole table is missing
InputPrice(i) == IF i \in DOMAIN prices_df THEN prices_df[i].avgprice ELSE 1

\* the value of item i: the sum of quantity * unit price over its records
InputValue(i) ==
    SumSeq([k \in DOMAIN issues_df |->
               IF issues_df[k].itemcode = i
               THEN issues_df[k].qty * InputPrice(i) ELSE 0])

InputTotal == SumSeq([k \in DOMAIN issues_df |->
                         issues_df[k].qty * InputPrice(issues_df[k].itemcode)])

\* the rank of item i in the ranking table
RankOf(i) == CHOOSE k \in DOMAIN agg : agg[k].itemcode = i

\* the cumulative value share of the first k rows of the ranking
ShareUpTo(k) ==
    IF InputTotal > 0
    THEN Frac(SumSeq([j \in 1..k |-> InputValue(agg[j].itemcode)]), InputTotal)
    ELSE Frac(0, 1)

Band(share) ==
    IF share.num * 100 <= 80 * share.den THEN "A"
    ELSE IF share.num * 100 <= 95 * share.den THEN "B"
    ELSE "C"

\* C1: every SKU of the output has the class its cumulative value share in the
\* ranking falls in: [0, 0.80] A, (0.80, 0.95] B, (0.95, 1] C, the cut points
\* themselves in the lower class.
C1_AbcByShare ==
    master # NotYet =>
        \A i \in DOMAIN master :
            /\ FracEq(agg[RankOf(i)].pct, ShareUpTo(RankOf(i)))
            /\ master[i].ABC = Band(ShareUpTo(RankOf(i)))
            /\ master[i].ABC = agg[RankOf(i)].ABC

\* a run with one SKU at exactly 0.80 (A), one at exactly 0.95 (B) and one in C
C1_Witness ==
    /\ master # NotYet
    /\ \E i, j, k \in DOMAIN master :
          /\ FracEq(ShareUpTo(RankOf(i)), Frac(80, 100)) /\ master[i].ABC = "A"
          /\ FracEq(ShareUpTo(RankOf(j)), Frac(95, 100)) /\ master[j].ABC = "B"
          /\ master[k].ABC = "C"

\* C2: along the ranking, which is in descending value order, pct never
\* decreases; the last pct is 1 when the total value is positive, and every
\* pct is 0 (no division by the zero total) when the total value is 0.
C2_PctMonotone ==
    agg # NotYet =>
        /\ \A j, k \in DOMAIN agg :
              j < k => /\ InputValue(agg[j].itemcode) >= InputValue(agg[k].itemcode)
                       /\ FracLe(agg[j].pct, agg[k].pct)
        /\ \A k \in DOMAIN agg : agg[k].pct.den > 0
        /\ InputTotal > 0 => FracEq(agg[Len(agg)].pct, Frac(1, 1))
        /\ InputTotal = 0 => \A k \in DOMAIN agg : agg[k].pct.num = 0

\* a ranking of several SKUs of positive total value whose pct grows to 1
C2_Witness ==
    /\ agg # NotYet
    /\ Len(agg) >= 2
    /\ InputTotal > 0
    /\ FracLt(agg[1].pct, agg[Len(agg)].pct)
    /\ FracEq(agg[Len(agg)].pct, Frac(1, 1))

\* C3 as claimed: the SKU ranked first is always classified A.
C3_Rank1AlwaysA ==
    agg # NotYet => agg[1].ABC = "A"

\* C3 amended: the SKU ranked first is classified by its own share of the
\* total value like every other SKU: A when the share is at most 0.80 (or the
\* total value is 0), B when it is in (0.80, 0.95], C when it is above 0.95.
C3_Rank1ByOwnShare ==
    agg # NotYet =>
        LET v == InputValue(agg[1].itemcode)
        IN /\ agg[1].ABC = "A" <=> (InputTotal = 0 \/ v * 100 <= 80 * InputTotal)
           /\ agg[1].ABC = "B" <=> (InputTotal > 0 /\ v * 100 > 80 * InputTotal
                                                  /\ v * 100 <= 95 * InputTotal)
           /\ agg[1].ABC = "C" <=> (InputTotal > 0 /\ v * 100 > 95 * InputTotal)

\* the first-ranked SKU holds more than 95% of a positive total and is C
C3_Witness ==
    /\ agg # NotYet
    /\ Len(agg) >= 2
    /\ InputValue(agg[1].itemcode) * 100 > 95 * InputTotal
    /\ agg[1].ABC = "C"

\* C4: for the 9 pairs of ABC in {A,B,C} and XYZ in {X,Y,Z}, pick_z returns
\* the larger of the two service levels (in hundredths: A 196, B 165, C 128;
\* X 165, Y 144, Z 128); (A,Z) gives 196 and (C,X) gives 165.
C4_PickZIsMax ==
    (pc = "returned" /\ call.fn = "pick_z"
        /\ call.a \in {"A", "B", "C"} /\ call.x \in {"X", "Y", "Z"}) =>
        LET za == [A |-> 196, B |-> 165, C |-> 128][call.a]
            zx == [X |-> 165, Y |-> 144, Z |-> 128][call.x]
        IN /\ ret.z = (IF za >= zx THEN za ELSE zx)
           /\ (call.a = "A" /\ call.x = "Z") => ret.z = 196
           /\ (call.a = "C" /\ call.x = "X") => ret.z = 165

\* pick_z("C", "X") has returned 1.65, the XYZ level being the larger one
C4_Witness ==
    /\ pc = "returned" /\ call.fn = "pick_z"
    /\ call.a = "C" /\ call.x = "X"
    /\ ret.z = 165

\* the monthly series of item i, from the records: the quantity of month m,
\* the sum and the sum of squares over the n months of the matrix
InputCell(i, m) ==
    SumSeq([k \in DOMAIN issues_df |->
               IF issues_df[k].itemcode = i /\ issues_df[k].date = m
               THEN issues_df[k].qty ELSE 0])

SeriesN(i) == Cardinality(DOMAIN mens[i])
SeriesSum(i) ==
    SumSeq([k \in 1..SeriesN(i) |-> InputCell(i, Ascending(DOMAIN mens[i])[k])])
SeriesSumSq(i) ==
    SumSeq([k \in 1..SeriesN(i) |->
               InputCell(i, Ascending(DOMAIN mens[i])[k])
                   * InputCell(i, Ascending(DOMAIN mens[i])[k])])

\* CV^2 = CvNum / CvDen for the sample deviation (N-1) over the series mean
CvNum(i) == SeriesN(i) * (SeriesN(i) * SeriesSumSq(i) - SeriesSum(i) * SeriesSum(i))
CvDen(i) == (SeriesN(i) - 1) * SeriesSum(i) * SeriesSum(i)

\* C5: a SKU whose series has mean 0 or fewer than 2 months has no CV (NaN,
\* no error) and is classified Z.
C5_UndefinedCvIsZ ==
    master # NotYet =>
        \A i \in DOMAIN master :
            (SeriesSum(i) = 0 \/ SeriesN(i) < 2) =>
                /\ xyz[i].cv.nan
                /\ master[i].XYZ = "Z"

\* an all-zero series of several months is Z
C5_Witness ==
    /\ master # NotYet
    /\ \E i \in DOMAIN master :
          SeriesSum(i) = 0 /\ SeriesN(i) >= 2 /\ xyz[i].cv.nan /\ master[i].XYZ = "Z"

\* C6: a SKU whose CV is defined is X for CV <= 0.50, Y for 0.50 < CV <= 1.00
\* and Z for CV > 1.00 (CV with the N-1 deviation; the cut points in the
\* lower class; a constant positive series is X).
C6_XyzByCv ==
    master # NotYet =>
        \A i \in DOMAIN master :
            (SeriesSum(i) > 0 /\ SeriesN(i) >= 2) =>
                /\ ~xyz[i].cv.nan
                /\ 4 * CvNum(i) <= CvDen(i) => master[i].XYZ = "X"
                /\ (4 * CvNum(i) > CvDen(i) /\ CvNum(i) <= CvDen(i))
                      => master[i].XYZ = "Y"
                /\ CvNum(i) > CvDen(i) => master[i].XYZ = "Z"
                /\ CvNum(i) = 0 => master[i].XYZ = "X"

\* a series whose CV is exactly 0.50 (such as 1, 2, 3) is X
C6_Witness ==
    /\ master # NotYet
    /\ \E i \in DOMAIN master :
          /\ SeriesSum(i) > 0 /\ SeriesN(i) >= 2
          /\ 4 * CvNum(i) = CvDen(i)
          /\ master[i].XYZ = "X"

\* the number an argument stands for, a missing one counting as 0
ArgVal(x) == IF Len(x) = 0 THEN 0 ELSE x[1]

\* C7: eoq returns 0 when D <= 0, S <= 0 or H*C <= 0, never raises a division
\* by zero, and returns a positive value when D > 0, S > 0 and H*C > 0.
C7_EoqGuards ==
    (pc = "returned" /\ call.fn = "eoq") =>
        /\ ~ret.raised
        /\ ret.den > 0
        /\ (ArgVal(call.D) <= 0 \/ ArgVal(call.S) <= 0
               \/ ArgVal(call.H) * ArgVal(call.C) <= 0) => ret.num = 0
        /\ (ArgVal(call.D) > 0 /\ ArgVal(call.S) > 0
               /\ ArgVal(call.H) * ArgVal(call.C) > 0) => ret.num > 0

\* eoq has returned 0 for a positive demand and order cost with H = 0
C7_Witness ==
    /\ pc = "returned" /\ call.fn = "eoq"
    /\ ArgVal(call.D) > 0 /\ ArgVal(call.S) > 0
    /\ call.H = <<0>> /\ ArgVal(call.C) > 0
    /\ ~ret.raised /\ ret.num = 0

\* the earliest and the latest month of any record
FirstMonth == CHOOSE m \in Range(issues_df) : \A r \in Range(issues_df) : m.date <= r.date
LastMonth == CHOOSE m \in Range(issues_df) : \A r \in Range(issues_df) : m.date >= r.date

\* C8 as claimed: every SKU's series has one entry for every month from the
\* globally earliest to the globally latest month of any record, 0 where the
\* SKU has no record, also for a month outside every SKU's own span.
C8_DenseOverGlobalRange ==
    mens # NotYet =>
        \A i \in DOMAIN mens :
            /\ DOMAIN mens[i] = FirstMonth.date .. LastMonth.date
            /\ \A m \in DOMAIN mens[i] : mens[i][m] = InputCell(i, m)

\* C9: all SKUs have series over the same months, every record's month is
\* one of them, and each entry is the sum of the quantities of the SKU's
\* records of that month.
C9_SameMonthsAndSums ==
    mens # NotYet =>
        /\ DOMAIN mens = ItemCodes(issues_df)
        /\ \A i, j \in DOMAIN mens : DOMAIN mens[i] = DOMAIN mens[j]
        /\ \A k \in DOMAIN issues_df :
              issues_df[k].date \in DOMAIN mens[issues_df[k].itemcode]
        /\ \A i \in DOMAIN mens :
              \A m \in DOMAIN mens[i] : mens[i][m] = InputCell(i, m)

\* two records of one SKU in one month have been summed into one entry
C9_Witness ==
    /\ mens # NotYet
    /\ \E j, k \in DOMAIN issues_df :
          /\ j # k
          /\ issues_df[j].itemcode = issues_df[k].itemcode
          /\ issues_df[j].date = issues_df[k].date
          /\ issues_df[j].qty > 0 /\ issues_df[k].qty > 0
          /\ mens[issues_df[j].itemcode][issues_df[j].date]
                = issues_df[j].qty + issues_df[k].qty

\* the names of the price table that contain the whole word "heli"
HeliWordNames == { <<"H","E","L","I"," ","P","U","M","P">>,
                   <<"p","-","h","e","l","i">> }
InputNamedHeli(i) ==
    i \in DOMAIN prices_df /\ prices_df[i].itemname \in HeliWordNames

\* C10: the supplier is HELI when the code is in the HELI list or the name
\* contains the word "heli" (also when the code is in the TVH list), else TVH
\* when the code is in the TVH list, else NACIONAL.
C10_SupplierPrecedence ==
    supplier # NotYet =>
        /\ DOMAIN supplier = ItemCodes(issues_df)
        /\ \A i \in DOMAIN supplier :
              supplier[i] = (IF i \in heli_set \/ InputNamedHeli(i) THEN "HELI"
                             ELSE IF i \in tvh_set THEN "TVH"
                             ELSE "NACIONAL")
        /\ (heli_set = {} /\ tvh_set = {} /\ \A i \in DOMAIN supplier : ~InputNamedHeli(i))
              => \A i \in DOMAIN supplier : supplier[i] = "NACIONAL"

\* a code in both lists is HELI, next to a code of the TVH list alone
C10_Witness ==
    /\ supplier # NotYet
    /\ \E i, j \in DOMAIN supplier :
          /\ i \in heli_set /\ i \in tvh_set /\ supplier[i] = "HELI"
          /\ j \in tvh_set /\ j \notin heli_set /\ ~InputNamedHeli(j)
          /\ supplier[j] = "TVH"

\* C11: the name rule matches 'heli' as a whole word in any letter case: an
\* item named 'HELI PUMP' is a HELI item, and the name 'HELICAL' does not
\* match, so that item is TVH or NACIONAL as the supplier lists say.
HeliPump == <<"H","E","L","I"," ","P","U","M","P">>
Helical == <<"H","E","L","I","C","A","L">>
InputName(i) == IF i \in DOMAIN prices_df THEN prices_df[i].itemname ELSE NaNName

C11_HeliWholeWord ==
    supplier # NotYet =>
        \A i \in DOMAIN supplier :
            /\ InputName(i) = HeliPump => supplier[i] = "HELI"
            /\ InputName(i) = <<"p","-","h","e","l","i">> => supplier[i] = "HELI"
            /\ (InputName(i) = Helical /\ i \notin heli_set) =>
                   supplier[i] = (IF i \in tvh_set THEN "TVH" ELSE "NACIONAL")

C11_Witness ==
    /\ supplier # NotYet
    /\ \E i, j \in DOMAIN supplier :
          /\ InputName(i) = HeliPump
          /\ i \notin heli_set
          /\ supplier[i] = "HELI"
          /\ InputName(j) = Helical
          /\ j \notin heli_set
          /\ j \notin tvh_set
          /\ supplier[j] = "NACIONAL"

\* C12: the lead time of a SKU is the override map's entry for its supplier
\* when there is one; without an entry, or without an override map, it is the
\* default map's 90 (HELI), 45 (TVH) or 3 (NACIONAL), so a partial override
\* leaves the other suppliers at their defaults.
DefaultLead(s) == CASE s = "HELI" -> 90 [] s = "TVH" -> 45 [] s = "NACIONAL" -> 3

C12_OverrideThenDefaultMap ==
    lead_time # NotYet =>
        \A i \in DOMAIN lead_time :
            lead_time[i] =
                IF cfg.file /\ supplier[i] \in DOMAIN cfg.lead_time_by_supplier
                THEN cfg.lead_time_by_supplier[supplier[i]]
                ELSE DefaultLead(supplier[i])

\* C13: the output has exactly one profile per item code of the normalized
\* consumption: an item that is only in the price table has no profile, and
\* a consumed item without a price-table entry has one with unit cost 1.
ConsumedCodes == {issues_df[k].itemcode : k \in DOMAIN issues_df}
OutputCodes == {master_out[k].itemcode : k \in DOMAIN master_out}

C13_ProfilePerConsumedCode ==
    master_out # NotYet =>
        /\ OutputCodes = ConsumedCodes
        /\ Len(master_out) = Cardinality(ConsumedCodes)
        /\ \A i \in DOMAIN prices_arg : i \notin ConsumedCodes => i \notin OutputCodes
        /\ \A k \in DOMAIN master_out :
               master_out[k].itemcode \notin DOMAIN prices_arg =>
                   master_out[k].unit_cost = 1

C13_Witness ==
    /\ master_out # NotYet
    /\ \E j \in DOMAIN prices_arg : j \notin ConsumedCodes
    /\ \E k \in DOMAIN master_out :
          /\ master_out[k].itemcode \notin DOMAIN prices_arg
          /\ master_out[k].unit_cost = 1
    /\ \E k \in DOMAIN master_out : master_out[k].itemcode \in DOMAIN prices_arg

\* C14: OnHand is 0 and BelowROP is 0 < ROP, true exactly when ROP > 0: a SKU
\* whose demand is all zero has ROP = 0 and is not below. The alerts are
\* exactly the profiles with BelowROP true, and each alert's SuggestedOrderQty
\* is max(SMAX - OnHand, 0) = SMAX, which is not negative.
InputQty(i) ==
    SumSeq([k \in DOMAIN issues_df |->
               IF issues_df[k].itemcode = i THEN issues_df[k].qty ELSE 0])

ValuePos(a) ==
    \/ a.rat.num * a.rat.den > 0
    \/ \E k \in DOMAIN a.roots :
          a.roots[k].coef.num * a.roots[k].coef.den > 0
              /\ a.roots[k].rad.num * a.roots[k].rad.den > 0

PartsNonNeg(a) ==
    /\ a.rat.num >= 0 /\ a.rat.den > 0
    /\ \A k \in DOMAIN a.roots :
          /\ a.roots[k].coef.num >= 0 /\ a.roots[k].coef.den > 0
          /\ a.roots[k].rad.num >= 0 /\ a.roots[k].rad.den > 0

SameValue(a, b) == FracEq(a.rat, b.rat) /\ a.roots = b.roots

C14_BelowRopAndAlerts ==
    master_out # NotYet =>
        /\ \A k \in DOMAIN master_out :
              LET r == master_out[k]
              IN /\ r.policy.OnHand = 0
                 /\ PartsNonNeg(r.policy.ROP)
                 /\ r.policy.BelowROP <=> ValuePos(r.policy.ROP)
                 /\ InputQty(r.itemcode) = 0 =>
                        ~ValuePos(r.policy.ROP) /\ ~r.policy.BelowROP
                 /\ (InputQty(r.itemcode) > 0 /\ lead_time[r.itemcode] > 0) =>
                        r.policy.BelowROP
        /\ [k \in DOMAIN alerts_out |-> alerts_out[k].row]
               = SelectSeq(master_out, LAMBDA r : r.policy.BelowROP)
        /\ \A k \in DOMAIN alerts_out :
              /\ SameValue(alerts_out[k].SuggestedOrderQty,
                           alerts_out[k].row.policy.SMAX)
              /\ PartsNonNeg(alerts_out[k].SuggestedOrderQty)

C14_Witness ==
    /\ master_out # NotYet
    /\ Len(alerts_out) = 1
    /\ ValuePos(alerts_out[1].SuggestedOrderQty)
    /\ \E k \in DOMAIN master_out :
          /\ InputQty(master_out[k].itemcode) = 0
          /\ ~master_out[k].policy.BelowROP

\* C15: ROP = daily_mean * lead_time_days + SS with daily_mean =
\* monthly_mean / 30, SMIN = ROP and SMAX = ROP + EOQ; for demand that is not
\* negative 0 <= SS <= ROP = SMIN <= SMAX; SS is 0 whenever the monthly
\* standard deviation is 0 or undefined.
C15_PolicyQuantities ==
    master_out # NotYet =>
        \A k \in DOMAIN master_out :
            LET r == master_out[k]
                pl == r.policy
                lt == lead_time[r.itemcode]
            IN /\ pl.lead_time_days = lt
               /\ FracEq(pl.ROP.rat,
                         Frac(r.monthly_mean.num * lt, r.monthly_mean.den * 30))
               /\ pl.SS.rat.num = 0
               /\ pl.ROP.roots = pl.SS.roots
               /\ pl.SMIN = pl.ROP
               /\ FracEq(pl.SMAX.rat, FracAdd(pl.ROP.rat, pl.EOQ.rat))
               /\ pl.SMAX.roots = pl.ROP.roots \o pl.EOQ.roots
               /\ PartsNonNeg(pl.SS)
               /\ PartsNonNeg(pl.ROP)
               /\ PartsNonNeg(pl.EOQ)
               /\ PartsNonNeg(pl.SMAX)
               /\ (r.monthly_std.nan \/ r.monthly_std.num = 0) => ~ValuePos(pl.SS)

C15_Witness ==
    /\ master_out # NotYet
    /\ \E j, k \in DOMAIN master_out :
          /\ ValuePos(master_out[j].policy.SS)
          /\ ValuePos(master_out[j].policy.EOQ)
          /\ master_out[j].policy.ROP.rat.num > 0
          /\ ~master_out[k].monthly_std.nan
          /\ master_out[k].monthly_std.num = 0
          /\ ~ValuePos(master_out[k].policy.SS)

\* C18: the output rows are sorted by ABC ascending, then XYZ ascending, then
\* annual_qty descending, and the alerts keep the same relative order.
ClassOrder(c) ==
    CASE c \in {"A", "X"} -> 1 [] c \in {"B", "Y"} -> 2 [] c \in {"C", "Z"} -> 3

InOrder(a, b) ==
    \/ ClassOrder(a.ABC) < ClassOrder(b.ABC)
    \/ /\ ClassOrder(a.ABC) = ClassOrder(b.ABC)
       /\ ClassOrder(a.XYZ) < ClassOrder(b.XYZ)
    \/ /\ ClassOrder(a.ABC) = ClassOrder(b.ABC)
       /\ ClassOrder(a.XYZ) = ClassOrder(b.XYZ)
       /\ a.annual_qty >= b.annual_qty

PositionOf(i) == CHOOSE k \in DOMAIN master_out : master_out[k].itemcode = i

C18_OutputSorted ==
    master_out # NotYet =>
        /\ \A j, k \in DOMAIN master_out :
              j < k => InOrder(master_out[j], master_out[k])
        /\ \A j, k \in DOMAIN alerts_out :
              j < k => PositionOf(alerts_out[j].row.itemcode)
                           < PositionOf(alerts_out[k].row.itemcode)

C18_Witness ==
    /\ master_out # NotYet
    /\ Len(alerts_out) >= 2
    /\ \E j, k \in DOMAIN master_out :
          /\ j < k
          /\ master_out[j].itemcode > master_out[k].itemcode
          /\ master_out[j].ABC = master_out[k].ABC
          /\ master_out[j].XYZ = master_out[k].XYZ
          /\ master_out[j].annual_qty > master_out[k].annual_qty

\* C17: three SKUs of values 8000, 1500 and 500 with constant monthly
\* consumption, empty HELI and TVH lists and no override: the cumulative
\* shares are exactly 0.80, 0.95 and 1.00, so the classes are A, B, C; every
\* SKU is X, NACIONAL with lead time 3 and below its reorder point, and the
\* first SKU has z_level 1.96.
ArgValue(i) ==
    SumSeq([k \in DOMAIN issues_df |->
               IF issues_df[k].itemcode = i /\ i \in DOMAIN prices_arg
               THEN issues_df[k].qty * prices_arg[i].avgprice ELSE 0])

ConstantMonthly(i) ==
    /\ FirstMonth.date < LastMonth.date
    /\ \A m \in FirstMonth.date..LastMonth.date :
          InputCell(i, m) = InputCell(i, FirstMonth.date) /\ InputCell(i, m) > 0

WorkedScenario ==
    /\ ConsumedCodes = {1, 2, 3}
    /\ DOMAIN prices_arg = {1, 2, 3}
    /\ ArgValue(1) = 8000 /\ ArgValue(2) = 1500 /\ ArgValue(3) = 500
    /\ \A i \in ConsumedCodes : ConstantMonthly(i)
    /\ \A i \in ConsumedCodes : ~ContainsHeliWord(StrOf(prices_arg[i].itemname))
    /\ heli_set = {} /\ tvh_set = {}
    /\ ~cfg.file

C17_WorkedScenario ==
    (master_out # NotYet /\ WorkedScenario) =>
        /\ [k \in DOMAIN agg |-> agg[k].itemcode] = <<1, 2, 3>>
        /\ FracEq(agg[1].pct, Frac(80, 100))
        /\ FracEq(agg[2].pct, Frac(95, 100))
        /\ FracEq(agg[3].pct, Frac(100, 100))
        /\ [k \in DOMAIN master_out |-> master_out[k].itemcode] = <<1, 2, 3>>
        /\ [k \in DOMAIN master_out |-> master_out[k].ABC] = <<"A", "B", "C">>
        /\ \A k \in DOMAIN master_out :
              /\ master_out[k].XYZ = "X"
              /\ supplier[master_out[k].itemcode] = "NACIONAL"
              /\ master_out[k].policy.lead_time_days = 3
              /\ master_out[k].policy.BelowROP
        /\ master_out[1].policy.z_level = 196
        /\ Len(alerts_out) = 3

C17_Witness ==
    /\ master_out # NotYet
    /\ WorkedScenario
    /\ master_out[1].ABC = "A"
    /\ master_out[1].policy.z_level = 196

RowValid(r) == r.itemcode # << >> /\ r.date # << >>
NoValidRow == \A k \in DOMAIN raw_moves : ~RowValid(raw_moves[k])

C19_AbortWithoutRecords ==
    (entry = "main" /\ pc \notin {"main", "loaded", "raised"}) =>
        /\ NoValidRow <=> pc = "aborted"
        /\ NoValidRow =>
              /\ agg = NotYet /\ mens = NotYet /\ xyz = NotYet
              /\ master = NotYet /\ policy = NotYet
              /\ master_out = NotYet /\ alerts_out = NotYet /\ out2 = NotYet

C19_Witness ==
    /\ entry = "main"
    /\ pc = "aborted"
    /\ Len(raw_moves) = 2
    /\ raw_moves[1].itemcode # << >> /\ raw_moves[1].date = << >>
    /\ raw_moves[2].itemcode = << >> /\ raw_moves[2].date # << >>
    /\ master_out = NotYet

\* C20: a record whose date does not parse is dropped by the normalization,
\* before the monthly bucketing: it adds to no month of any series, it does
\* not stop the run, and the other records are what they would be without it.
RECURSIVE ValidRows(_)
ValidRows(raw) ==
    IF raw = << >> THEN << >>
    ELSE IF RowValid(Head(raw)) THEN <<Head(raw)>> \o ValidRows(Tail(raw))
    ELSE ValidRows(Tail(raw))

CleanQty(c) == IF c = << >> THEN 0 ELSE IF c[1] < 0 THEN 0 ELSE c[1]

RawCell(i, m) ==
    SumSeq([k \in DOMAIN raw_moves |->
               IF raw_moves[k].itemcode = <<i>> /\ raw_moves[k].date = <<m>>
               THEN CleanQty(raw_moves[k].qty) ELSE 0])

C20_BadDateDropped ==
    (entry = "main" /\ pc \notin {"main", "raised"} /\ "qty" \in moves_cols) =>
        /\ Len(issues_df) = Len(ValidRows(raw_moves))
        /\ \A k \in DOMAIN issues_df :
              /\ <<issues_df[k].itemcode>> = ValidRows(raw_moves)[k].itemcode
              /\ <<issues_df[k].date>> = ValidRows(raw_moves)[k].date
              /\ issues_df[k].qty = CleanQty(ValidRows(raw_moves)[k].qty)
        /\ ~NoValidRow => pc # "aborted"
        /\ mens # NotYet =>
              \A i \in DOMAIN mens : \A m \in DOMAIN mens[i] :
                  mens[i][m] = RawCell(i, m)
        /\ master # NotYet =>
              \A i \in DOMAIN master :
                  master[i].annual_qty = RawCell(i, 1) + RawCell(i, 2)

C20_Witness ==
    /\ entry = "main"
    /\ master_out # NotYet
    /\ Len(raw_moves) = 2
    /\ raw_moves[1] = [itemcode |-> <<1>>, date |-> << >>, qty |-> <<2>>]
    /\ raw_moves[2] = [itemcode |-> <<1>>, date |-> <<2>>, qty |-> <<2>>]
    /\ master_out[1].annual_qty = 2

\* C21: when the movement table has no item-code column or no date column,
\* or the price table has no item-code column, loading fails at once with an
\* error that names the missing column and no record is produced; otherwise
\* every record carries the item code of a movement row, and the rows with a
\* blank item code give no record.
RequiredColumnMissing ==
    \/ "itemcode" \notin moves_cols
    \/ "date" \notin moves_cols
    \/ raw_prices # << >> /\ "itemcode" \notin raw_prices[1].cols

RowCodes == {raw_moves[k].itemcode : k \in DOMAIN raw_moves} \ {<< >>}
CodedRows == Cardinality({k \in DOMAIN raw_moves : raw_moves[k].itemcode # << >>})

C22_NoQuantityColumnIsZero ==
    (entry = "main" /\ pc \notin {"main", "raised"}) =>
        \A k \in DOMAIN issues_df :
            issues_df[k].qty =
                IF "qty" \in moves_cols
                THEN CleanQty(ValidRows(raw_moves)[k].qty)
                ELSE 0

\* C22, amended: values that are missing or not numbers never stop the run;
\* a quantity that is blank or not a number counts as 0 and a negative one as
\* 0, but in a table without a quantity column every record counts as 1; a
\* SKU whose price is missing, not a number or without a price column is
\* valued at unit price 1.
PriceCellOf(i) ==
    IF raw_prices = << >> THEN << >>
    ELSE IF i \notin DOMAIN raw_prices[1].rows THEN << >>
    ELSE IF "avgprice" \notin raw_prices[1].cols THEN << >>
    ELSE raw_prices[1].rows[i]

C22_SafeDefaults ==
    (entry = "main" /\ pc \notin {"main", "raised"}) =>
        /\ \A k \in DOMAIN issues_df :
              issues_df[k].qty =
                  IF "qty" \in moves_cols
                  THEN CleanQty(ValidRows(raw_moves)[k].qty)
                  ELSE 1
        /\ master # NotYet =>
              \A i \in DOMAIN master :
                  /\ PriceCellOf(i) = << >> => master[i].unit_cost = 1
                  /\ PriceCellOf(i) = << >> => master[i].ACV = master[i].annual_qty

C22_Witness ==
    /\ entry = "main"
    /\ master_out # NotYet
    /\ "qty" \notin moves_cols
    /\ Len(issues_df) = 2
    /\ raw_prices # << >>
    /\ "avgprice" \in raw_prices[1].cols
    /\ 1 \in DOMAIN raw_prices[1].rows
    /\ raw_prices[1].rows[1] = << >>
    /\ master_out[1].unit_cost = 1
    /\ master_out[1].annual_qty = 2

\* C23 as claimed: SKUs of equal total value stand in the ranking in the
\* order in which they are first met in the consumption records.
FirstSeen(i) == CHOOSE k \in DOMAIN issues_df :
                    /\ issues_df[k].itemcode = i
                    /\ \A j \in 1..(k - 1) : issues_df[j].itemcode # i

C23_TiesInEncounterOrder ==
    agg # NotYet =>
        \A j, k \in DOMAIN agg :
            (j < k /\ agg[j].valor = agg[k].valor) =>
                FirstSeen(agg[j].itemcode) < FirstSeen(agg[k].itemcode)

\* C25 as claimed: for a pair with an unrecognized class, pick_z returns the
\* maximum of the two lookups with 1.65 in the place of each unrecognized
\* class, so never less than 1.65.
LookupOr165(c) ==
    CASE c = "A" -> 196 [] c = "B" -> 165 [] c = "C" -> 128
      [] c = "X" -> 165 [] c = "Y" -> 144 [] c = "Z" -> 128
      [] OTHER -> 165

C25_UnrecognizedCountsAsDefault ==
    (pc = "returned" /\ call.fn = "pick_z"
        /\ (call.a \notin {"A", "B", "C"} \/ call.x \notin {"X", "Y", "Z"})) =>
        /\ ret.z = Max(LookupOr165(call.a), LookupOr165(call.x))
        /\ ret.z >= 165

\* C26: for every SKU of the output, annual_qty is the sum of its consumption
\* quantities, ACV = annual_qty * unit_cost, and ACV is the value (the sum of
\* quantity * unit price over its records) the SKU was ranked by, the price
\* defaulting to 1 in both.
ArgPrice(i) == IF i \in DOMAIN prices_arg THEN Clip0(prices_arg[i].avgprice) ELSE 1

C26_AcvIsRankingValue ==
    master_out # NotYet =>
        \A k \in DOMAIN master_out :
            LET r == master_out[k]
                i == r.itemcode
            IN /\ r.annual_qty = InputQty(i)
               /\ r.unit_cost = ArgPrice(i)
               /\ r.ACV = r.annual_qty * r.unit_cost
               /\ r.ACV = agg[RankOf(i)].valor
               /\ r.ACV = SumSeq([j \in DOMAIN issues_df |->
                                     IF issues_df[j].itemcode = i
                                     THEN issues_df[j].qty * ArgPrice(i) ELSE 0])

C26_Witness ==
    /\ master_out # NotYet
    /\ \E k \in DOMAIN master_out :
          /\ master_out[k].annual_qty >= 2
          /\ master_out[k].unit_cost > 1
          /\ master_out[k].ACV = master_out[k].annual_qty * master_out[k].unit_cost
          /\ master_out[k].ACV = agg[RankOf(master_out[k].itemcode)].valor

\* C24: verify_password returns true exactly when the plain password matches
\* the stored bcrypt hash, whether or not passlib raises ValueError; when the
\* stored hash cannot be read the answer is false; no exception reaches the
\* caller.
Matches(plain, hashed) ==
    hashed.scheme = "2b" /\ \E s \in Salts : hashed = Hashpw(plain, s)

C24_VerifyDespitePasslibError ==
    (pc = "returned" /\ call.fn = "verify_password") =>
        /\ ret.raised = "none"
        /\ ret.value = Matches(call.plain, call.hashed)

C24_Witness ==
    /\ pc = "returned"
    /\ call.fn = "verify_password"
    /\ call.broken
    /\ call.plain = "Admin#1234"
    /\ Matches(call.plain, call.hashed)
    /\ ret = Returned(TRUE)

\* C27: under any sequence or interleaving of confirm_move calls on one move,
\* at most one call commits (changes stock and adds move lines): the lines of
\* the move are the lines of one request.
Committed == {p \in Requests : session[p].pc = "done" /\ session[p].code = 200}

C27_ConfirmedAtMostOnce ==
    /\ Cardinality(Committed) <= 1
    /\ \/ move.lines = << >>
       \/ \E p \in Committed : Len(move.lines) <= 2

\* C28: with stock enforcement on, no inventory balance is negative after any
\* interleaving of the requests that make OUTBOUND and TRANSFER movements.
C28_NoNegativeBalance ==
    \A w \in DOMAIN inventory_balance : inventory_balance[w] >= 0

\* C29: every print job is sent to the printer at most once - also when the
\* acknowledgement is answered 401 or fails: a job the spooler received has
\* left 'queued' by the next poll and is never fetched again.
C29_PrintedAtMostOnce ==
    /\ \A j \in DOMAIN printer : printer[j] <= 1
    /\ agent.pc = "poll" =>
          \A j \in DOMAIN printer : printer[j] >= 1 => print_jobs[j].status # "queued"

\* C30: scan sessions are one-way. A session that is not open never changes
\* again - no entry is added, the status never returns to 'open' - and the
\* quantities of an outbound session are deducted at most once: the session
\* leaves at most one movement.
SettledStaysSettled ==
    /\ outbound_session.status # "open" => outbound_session' = outbound_session
    /\ count_session.status # "open" => count_session' = count_session

C30_SessionsOneWay ==
    /\ [](Len(movement) <= 1)
    /\ [][SettledStaysSettled]_vars

====
